---------------------------- MODULE Spec2Model ----------------------------
(***************************************************************************)
(* A model of the ingestion -> deduplication -> scoring -> dispatch        *)
(* pipeline of Crypto-News-Alerts: the Deduplicator, the PriorityScorer,   *)
(* the RSS and Nitter collectors and the AlertScheduler loops.             *)
(*                                                                         *)
(* Text is a sequence of ASCII codes (97 = "a", 65 = "A", 98 = "b",        *)
(* 32 = " ", 36 = "$", 58 = ":"); a dict is a function whose DOMAIN holds  *)
(* the keys that are present.                                              *)
(***************************************************************************)
EXTENDS Integers, Sequences, FiniteSets, TLC

VARIABLES
    \* ---- Deduplicator (src/src/filters/deduplicator.py)
    now,            \* wall clock, in seconds
    redis,          \* self._redis is not None
    redis_up,       \* the external store answers (environment)
    redis_store,    \* the external store: key hash -> expiry time
    memory_cache,   \* self._memory_cache: hash -> time seen
    last,           \* history: the most recent Deduplicator call and its outcome
    marked_at,      \* history: hash -> time of its latest mark_seen
    \* ---- Deduplicator._generate_hash on a pair of items
    hash_a, hash_b, hash_of_a, hash_of_b,
    \* ---- PriorityScorer (src/src/filters/priority_scorer.py)
    sc_item,        \* the item passed to score()
    sc_keywords,    \* config["keywords"], in the configuration's order
    sc_keywords2,   \* the same keyword categories in another order
    sc_result,      \* score(item) under sc_keywords
    sc_result2,     \* score(item) under sc_keywords2
    \* ---- RSSCollector (src/src/collectors/rss_collector.py)
    rss_feeds,      \* self.feeds: the configured feed descriptors
    rss_last_seen,  \* self._last_seen: feed url -> newest timestamp
    rss_pc,         \* "idle", or "gather" while collect() awaits its fetches
    rss_pending,    \* feeds (indices of self.feeds) whose _fetch_feed is in flight
    rss_results,    \* feed -> what its _fetch_feed returned in this pass
    rss_prev        \* history: feed -> the entries its latest fetch parsed, and
                    \* whether they held nothing new for the fetch of this pass
    ,
    \* ---- NitterCollector (src/src/collectors/nitter_collector.py)
    nit_instances,  \* self.instances
    nit_accounts,   \* self.accounts
    nit_last_seen,  \* self._last_seen: handle -> last tweet id
    nit_idx,        \* self._current_instance_idx
    nit_failed,     \* self._failed_instances
    nit_pc,         \* "idle", "fetch" (a request is in flight), "sleep" (between accounts)
    nit_account,    \* collect(): index of the account being fetched
    nit_attempt,    \* _fetch_account: iterations of the instance loop started
    nit_instance,   \* _fetch_account: the instance of the request in flight
    nit_tried,      \* history: the instances _fetch_account has asked for this account
    nit_results,    \* account -> what its _fetch_account returned in this pass
    \* ---- Scheduler (src/src/scheduler.py)
    sch_sources,    \* self.sources_config, as far as run() reads it
    sch_filters,    \* self.filters_config
    sch_running,    \* self._running
    sch_tasks,      \* self._tasks: the loops started
    sch_pc,         \* loop -> where its task stands: "collect", "item", "send", "sleep"
    sch_items,      \* loop -> the items _process_items still has to go through
    sch_holder,     \* the loop that runs between two suspension points, or "none"
    sch_dispatched, \* hash -> when a notification for it was last delivered
    sch_sent,       \* the latest delivery: its hash, its time, the one before it
    sch_errors,     \* loop -> items of its current batch whose processing raised
    sch_shutdown,   \* shutdown(): "no", "draining" (awaiting the tasks), "stopped"
    sch_closed,     \* deduplicator.close() has closed the store connection
    \* ---- NtfyClient and the Scheduler's pure helpers, applied to one input
    nt_score,       \* the score passed to _get_priority_for_score
    nt_priority,    \* what it returned (0: not called yet)
    nt_text,        \* the text passed to NtfyClient._truncate
    nt_max,         \* the max_length passed with it
    nt_truncated,   \* what it returned
    \* ---- NtfyClient.send applied to one title and message
    nt_title,       \* the title passed to send
    nt_message,     \* the message passed to send
    nt_max_title,   \* self.max_title_length
    nt_max_body,    \* self.max_body_length
    nt_include_timestamp, \* self.include_timestamp
    nt_request      \* the request send posted: its Title header and its body

dedupVars == <<now, redis, redis_up, redis_store, memory_cache, last, marked_at>>
hashVars == <<hash_a, hash_b, hash_of_a, hash_of_b>>
scoreVars == <<sc_item, sc_keywords, sc_keywords2, sc_result, sc_result2>>
rssVars == <<rss_feeds, rss_last_seen, rss_pc, rss_pending, rss_results, rss_prev>>
nitVars == <<nit_instances, nit_accounts, nit_last_seen, nit_idx, nit_failed,
             nit_pc, nit_account, nit_attempt, nit_instance, nit_tried, nit_results>>
schVars == <<sch_sources, sch_filters, sch_running, sch_tasks, sch_pc, sch_items,
             sch_holder, sch_dispatched, sch_sent, sch_errors, sch_shutdown, sch_closed>>
sendVars == <<nt_title, nt_message, nt_max_title, nt_max_body, nt_include_timestamp,
              nt_request>>
ntfyVars == <<nt_score, nt_priority, nt_text, nt_max, nt_truncated, sendVars>>
vars == <<dedupVars, hashVars, scoreVars, rssVars, nitVars, schVars, ntfyVars>>

----------------------------------------------------------------------------
\* Bounds of the model

\* the clock stops here
MaxTime == 4
\* deduplication.window_seconds of the configuration, in clock ticks
WindowSeconds == 2
\* keyword categories in one configuration
MaxCategories == 3
\* entries in one feed document
MaxEntries == 2
\* timeline items in one fetched page
MaxPage == 2
\* items one collect() hands to _process_items
MaxBatch == 2
\* items of one batch whose processing raises
MaxErrors == 1
\* the largest score, in absolute value, passed to _get_priority_for_score
MaxScore == 100
\* the longest text passed to _truncate, and the largest max_length
MaxText == 5

----------------------------------------------------------------------------
\* Python helpers

\* dict.get(field, default)
Get(d, field, default) == IF field \in DOMAIN d THEN d[field] ELSE default

\* a dict without one key (del d[k])
Del(f, k) == [x \in DOMAIN f \ {k} |-> f[x]]

\* d[k] = v
Put(f, k, v) == [x \in DOMAIN f \cup {k} |-> IF x = k THEN v ELSE f[x]]

EmptyDict == [x \in {} |-> 0]

----------------------------------------------------------------------------
\* Deduplicator._generate_hash

\* hashlib.sha256(key.encode()).hexdigest()[:16]: a 64-bit digest of the key's
\* characters, modelled by a 16-bit polynomial digest of the same characters.
RECURSIVE Digest(_)
Digest(key) ==
    IF key = <<>> THEN 7
    ELSE (Digest(SubSeq(key, 1, Len(key) - 1)) * 31 + key[Len(key)]) % 65536

\* mutant: the title is always mixed into the key
generate_hash_title(item) ==
    Digest(Get(item, "link", <<>>) \o <<58>> \o Get(item, "title", <<>>))

generate_hash(item) ==
    LET link == Get(item, "link", <<>>)
        key == IF link # <<>> THEN link
               ELSE Get(item, "source", <<>>) \o <<58>> \o Get(item, "title", <<>>)
    IN Digest(key)

----------------------------------------------------------------------------
\* Deduplicator: the in-process map

\* mutant: an entry expires one second early (age >= window)
check_memory_early(cache, item_hash, t) ==
    IF item_hash \notin DOMAIN cache THEN [result |-> FALSE, cache |-> cache]
    ELSE IF t - cache[item_hash] >= WindowSeconds
         THEN [result |-> FALSE, cache |-> Del(cache, item_hash)]
         ELSE [result |-> TRUE, cache |-> cache]

\* mutant: a hash that is looked up and not found is recorded
check_memory_records(cache, item_hash, t) ==
    IF item_hash \notin DOMAIN cache
    THEN [result |-> FALSE, cache |-> Put(cache, item_hash, t)]
    ELSE IF t - cache[item_hash] > WindowSeconds
         THEN [result |-> FALSE, cache |-> Del(cache, item_hash)]
         ELSE [result |-> TRUE, cache |-> cache]

\* _check_memory at time t: the answer and the map it leaves
check_memory(cache, item_hash, t) ==
    IF item_hash \notin DOMAIN cache THEN [result |-> FALSE, cache |-> cache]
    ELSE IF t - cache[item_hash] > WindowSeconds
         THEN [result |-> FALSE, cache |-> Del(cache, item_hash)]
         ELSE [result |-> TRUE, cache |-> cache]

\* len(self._memory_cache) below which _cleanup_memory_cache does nothing
CleanupMinSize == 100

cleanup_memory_cache(cache, t) ==
    IF Cardinality(DOMAIN cache) < CleanupMinSize THEN cache
    ELSE LET expired == {k \in DOMAIN cache : t - cache[k] > WindowSeconds}
         IN [k \in DOMAIN cache \ expired |-> cache[k]]

mark_memory(cache, item_hash, t) ==
    cleanup_memory_cache(Put(cache, item_hash, t), t)

----------------------------------------------------------------------------
\* Deduplicator: the external store

\* self._redis.exists(key): a key set with an expiry is gone once it expired
redis_exists(store, item_hash, t) ==
    item_hash \in DOMAIN store /\ t < store[item_hash]

\* self._redis.setex(key, self.window_seconds, "1")
redis_setex(store, item_hash, t) == Put(store, item_hash, t + WindowSeconds)

\* mutant: after one store error the Deduplicator stops using the store
redis_after_error_sticky == FALSE

\* self._redis after a store call raised: the except clause leaves it alone
redis_after_error == redis

\* _check_redis
check_redis(item_hash) ==
    IF redis_up
    THEN [result |-> redis_exists(redis_store, item_hash, now), raised |-> FALSE,
          cache |-> memory_cache, store_failed |-> FALSE, redis |-> redis]
    ELSE LET m == check_memory(memory_cache, item_hash, now)
         IN [result |-> m.result, raised |-> FALSE,
             cache |-> m.cache, store_failed |-> TRUE, redis |-> redis_after_error]

\* is_duplicate(item): the answer, and the Deduplicator's state after it
is_duplicate(item) ==
    LET item_hash == generate_hash(item)
    IN IF redis
       THEN check_redis(item_hash) @@ [store_tried |-> TRUE]
       ELSE LET m == check_memory(memory_cache, item_hash, now)
            IN [result |-> m.result, raised |-> FALSE, cache |-> m.cache,
                store_failed |-> FALSE, redis |-> redis, store_tried |-> FALSE]

\* _mark_redis
mark_redis(item_hash) ==
    IF redis_up
    THEN [store |-> redis_setex(redis_store, item_hash, now), raised |-> FALSE,
          cache |-> memory_cache, store_failed |-> FALSE, redis |-> redis]
    ELSE [store |-> redis_store, raised |-> FALSE,
          cache |-> mark_memory(memory_cache, item_hash, now),
          store_failed |-> TRUE, redis |-> redis_after_error]

\* mutant: mark_seen records nothing
mark_seen_forgets(item) ==
    [store |-> redis_store, raised |-> FALSE, cache |-> memory_cache,
     store_failed |-> FALSE, redis |-> redis, store_tried |-> FALSE]

\* mark_seen(item): the Deduplicator's state after it
mark_seen(item) ==
    LET item_hash == generate_hash(item)
    IN IF redis
       THEN mark_redis(item_hash) @@ [store_tried |-> TRUE]
       ELSE [store |-> redis_store, raised |-> FALSE,
             cache |-> mark_memory(memory_cache, item_hash, now),
             store_failed |-> FALSE, redis |-> redis, store_tried |-> FALSE]

----------------------------------------------------------------------------
\* PriorityScorer

\* [A-Za-z0-9_]: the characters the regex \w matches (ASCII)
IsWordChar(c) == c \in (48..57) \cup (65..90) \cup (97..122) \cup {95}

\* re.IGNORECASE, on ASCII letters
Lower(c) == IF c \in 65..90 THEN c + 32 ELSE c

\* \b between the first p characters of text and the rest
WordBoundary(text, p) ==
    (p >= 1 /\ IsWordChar(text[p])) # (p < Len(text) /\ IsWordChar(text[p + 1]))

\* the keyword's characters stand in text after its first p characters
MatchesAt(word, text, p) ==
    /\ p + Len(word) <= Len(text)
    /\ \A j \in 1..Len(word) : Lower(text[p + j]) = Lower(word[j])

\* re.compile(rf'\b{re.escape(word)}\b', re.IGNORECASE).search(text)
pattern_search(word, text) ==
    \E p \in 0..Len(text) :
        /\ MatchesAt(word, text, p)
        /\ WordBoundary(text, p)
        /\ WordBoundary(text, p + Len(word))

\* mutant: the keyword category is passed on untranslated
map_category_untranslated(keyword_category) == keyword_category

\* _map_category
map_category(keyword_category) ==
    CASE keyword_category = "critical_en" -> "security"
      [] keyword_category = "critical_pt" -> "security"
      [] keyword_category = "regulatory_en" -> "regulatory"
      [] keyword_category = "regulatory_pt" -> "regulatory"
      [] keyword_category = "protocol" -> "protocol"
      [] keyword_category = "market" -> "market"
      [] OTHER -> "news"

\* the inner loop of score(): category_score over the category's patterns
RECURSIVE category_score(_, _, _)
category_score(settings, text, n) ==
    IF n = 0 THEN 0
    ELSE category_score(settings, text, n - 1)
         + (IF pattern_search(settings.words[n], text) THEN settings.score ELSE 0)

\* mutant: only a category that becomes the best one adds to the total
score_category_best_only(acc, settings, text) ==
    LET cs == category_score(settings, text, Len(settings.words))
    IN IF cs > acc.best_category_score
       THEN [total_keyword_score |-> acc.total_keyword_score + cs,
             best_category_score |-> cs,
             best_category |-> map_category(settings.name)]
       ELSE acc

\* mutant: a later category with an equal sum replaces the best one
score_category_last_max(acc, settings, text) ==
    LET cs == category_score(settings, text, Len(settings.words))
    IN IF cs = 0 THEN acc
       ELSE [total_keyword_score |-> acc.total_keyword_score + cs,
             best_category_score |->
                 IF cs >= acc.best_category_score THEN cs ELSE acc.best_category_score,
             best_category |->
                 IF cs >= acc.best_category_score THEN map_category(settings.name)
                 ELSE acc.best_category]

\* one pass of the outer loop of score(), over one keyword category
score_category(acc, settings, text) ==
    LET cs == category_score(settings, text, Len(settings.words))
    IN IF cs = 0 THEN acc
       ELSE [total_keyword_score |-> acc.total_keyword_score + cs,
             best_category_score |->
                 IF cs > acc.best_category_score THEN cs ELSE acc.best_category_score,
             best_category |->
                 IF cs > acc.best_category_score THEN map_category(settings.name)
                 ELSE acc.best_category]

\* the outer loop of score() over the first n keyword categories
RECURSIVE score_loop(_, _, _, _)
score_loop(item, keywords, text, n) ==
    IF n = 0
    THEN [total_keyword_score |-> 0, best_category_score |-> 0,
          best_category |-> Get(item, "category", "news")]
    ELSE score_category(score_loop(item, keywords, text, n - 1), keywords[n], text)

\* the text score() matches against: f"{title} {summary}"
score_text(item) == Get(item, "title", <<>>) \o <<32>> \o Get(item, "summary", <<>>)

\* PriorityScorer(config).score(item)
score(item, keywords) ==
    LET acc == score_loop(item, keywords, score_text(item), Len(keywords))
    IN [score |-> Get(item, "priority_boost", 0) + acc.total_keyword_score,
        category |-> acc.best_category]

----------------------------------------------------------------------------
\* RSSCollector

\* datetime.min.replace(tzinfo=timezone.utc); parsed timestamps are 1, 2, ...
DatetimeMin == 0
\* a date string date_parser.parse raises on
BadDate == -1
\* _parse_timestamp found nothing it could parse
NoTimestamp == -2

\* feed descriptors: "F1" at "u1"; "F2" at "u2", which requires the keyword "b"
RssFeedPool ==
    { [url |-> <<117, 49>>, name |-> <<70, 49>>, category |-> "security",
       priority_boost |-> 20],
      [url |-> <<117, 50>>, name |-> <<70, 50>>, keywords_required |-> << <<98>> >>] }

\* _parse_timestamp: the first of published, updated, created that parses
parse_timestamp(entry) ==
    IF "published" \in DOMAIN entry /\ entry.published # BadDate THEN entry.published
    ELSE IF "updated" \in DOMAIN entry /\ entry.updated # BadDate THEN entry.updated
    ELSE IF "created" \in DOMAIN entry /\ entry.created # BadDate THEN entry.created
    ELSE NoTimestamp

\* kw.lower() in text, for text already lowered
Contains(kw, text) == \E p \in 0..Len(text) : MatchesAt(kw, text, p)

\* the keywords_required test of _fetch_feed; TRUE when the entry is kept
rss_keywords_ok(feed_config, entry) ==
    LET keywords_required == Get(feed_config, "keywords_required", <<>>)
        text == Get(entry, "title", <<>>) \o <<32>> \o Get(entry, "summary", <<>>)
    IN keywords_required = <<>>
       \/ \E k \in 1..Len(keywords_required) : Contains(keywords_required[k], text)

\* re.sub(r'<[^>]+>', '', summary).strip(), cut to 500 characters: the entries
\* of the model carry no summary, and the clean empty summary is empty
clean_summary(summary) == IF Len(summary) > 500 THEN SubSeq(summary, 1, 497) \o <<46, 46, 46>>
                          ELSE summary

\* the item _fetch_feed builds from an entry
rss_item(feed_config, entry, timestamp, t) ==
    [title |-> Get(entry, "title", <<>>),
     summary |-> clean_summary(Get(entry, "summary", <<>>)),
     link |-> Get(entry, "link", <<>>),
     source |-> feed_config.name,
     source_type |-> "rss",
     category |-> Get(feed_config, "category", "news"),
     priority_boost |-> Get(feed_config, "priority_boost", 0),
     language |-> Get(feed_config, "language", "en"),
     timestamp |-> IF timestamp # NoTimestamp THEN timestamp ELSE t]

\* mutant: an entry at the checkpoint is not skipped (timestamp < last_seen)
fetch_entry_replays(acc, feed_config, last_seen, entry, t) ==
    LET timestamp == parse_timestamp(entry)
    IN IF timestamp # NoTimestamp /\ timestamp < last_seen THEN acc
       ELSE LET newest == IF timestamp # NoTimestamp /\ timestamp > acc.newest_timestamp
                          THEN timestamp ELSE acc.newest_timestamp
            IN IF ~rss_keywords_ok(feed_config, entry)
               THEN [acc EXCEPT !.newest_timestamp = newest]
               ELSE [items |-> Append(acc.items, rss_item(feed_config, entry, timestamp, t)),
                     newest_timestamp |-> newest]

\* mutant: an entry without a parseable timestamp is skipped as old
fetch_entry_drops_undated(acc, feed_config, last_seen, entry, t) ==
    LET timestamp == parse_timestamp(entry)
    IN IF timestamp = NoTimestamp \/ timestamp <= last_seen THEN acc
       ELSE LET newest == IF timestamp > acc.newest_timestamp
                          THEN timestamp ELSE acc.newest_timestamp
            IN IF ~rss_keywords_ok(feed_config, entry)
               THEN [acc EXCEPT !.newest_timestamp = newest]
               ELSE [items |-> Append(acc.items, rss_item(feed_config, entry, timestamp, t)),
                     newest_timestamp |-> newest]

\* the body of the loop over parsed.entries in _fetch_feed
fetch_entry(acc, feed_config, last_seen, entry, t) ==
    LET timestamp == parse_timestamp(entry)
    IN IF timestamp # NoTimestamp /\ timestamp <= last_seen THEN acc
       ELSE LET newest == IF timestamp # NoTimestamp /\ timestamp > acc.newest_timestamp
                          THEN timestamp ELSE acc.newest_timestamp
            IN IF ~rss_keywords_ok(feed_config, entry)
               THEN [acc EXCEPT !.newest_timestamp = newest]
               ELSE [items |-> Append(acc.items, rss_item(feed_config, entry, timestamp, t)),
                     newest_timestamp |-> newest]

\* the loop of _fetch_feed over the first n entries
RECURSIVE fetch_loop(_, _, _, _, _)
fetch_loop(feed_config, last_seen, entries, n, t) ==
    IF n = 0 THEN [items |-> <<>>, newest_timestamp |-> last_seen]
    ELSE fetch_entry(fetch_loop(feed_config, last_seen, entries, n - 1, t),
                     feed_config, last_seen, entries[n], t)

\* _fetch_feed once the document is fetched and parsed: the items returned and
\* the checkpoint stored
fetch_feed(feed_config, checkpoints, entries, t) ==
    LET last_seen == Get(checkpoints, feed_config.url, DatetimeMin)
        r == fetch_loop(feed_config, last_seen, entries, Len(entries), t)
    IN [items |-> r.items,
        last_seen |-> Put(checkpoints, feed_config.url, r.newest_timestamp)]

----------------------------------------------------------------------------
\* NitterCollector

\* a < b for Python strings: lexicographic on the characters' codes
RECURSIVE StrLess(_, _)
StrLess(a, b) ==
    IF a = <<>> THEN b # <<>>
    ELSE IF b = <<>> THEN FALSE
    ELSE IF a[1] # b[1] THEN a[1] < b[1]
    ELSE StrLess(Tail(a), Tail(b))

\* s.split("/")[-1]
RECURSIVE LastSegment(_)
LastSegment(str) ==
    IF str = <<>> THEN <<>>
    ELSE IF str[Len(str)] = 47 THEN <<>>
    ELSE Append(LastSegment(SubSeq(str, 1, Len(str) - 1)), str[Len(str)])

\* s.replace("#m", "")
RECURSIVE RemoveHashM(_)
RemoveHashM(str) ==
    IF Len(str) < 2 THEN str
    ELSE IF str[1] = 35 /\ str[2] = 109 THEN RemoveHashM(SubSeq(str, 3, Len(str)))
    ELSE <<str[1]>> \o RemoveHashM(Tail(str))

\* how many timeline items _parse_tweets looks at
TimelineLimit == 15
\* how much of the content goes into the title
TitleChars == 80

Min(a, b) == IF a < b THEN a ELSE b

\* the keywords_required test of _parse_tweets; TRUE when the tweet is kept
nitter_keywords_ok(account, content) ==
    LET keywords_required == Get(account, "keywords_required", <<>>)
    IN keywords_required = <<>>
       \/ \E k \in 1..Len(keywords_required) : Contains(keywords_required[k], content)

\* the item _parse_tweets builds
nitter_item(account, tweet_id, content, t) ==
    [title |-> <<64>> \o account.handle \o <<58, 32>>
               \o SubSeq(content, 1, Min(Len(content), TitleChars)) \o <<46, 46, 46>>,
     summary |-> content,
     link |-> <<104, 116, 116, 112, 115, 58, 47, 47, 116, 119, 105, 116, 116, 101,
                114, 46, 99, 111, 109, 47>>
              \o account.handle \o <<47, 115, 116, 97, 116, 117, 115, 47>> \o tweet_id,
     source |-> <<64>> \o account.handle,
     source_type |-> "nitter",
     category |-> Get(account, "category", "social"),
     priority_boost |-> Get(account, "priority_boost", 0),
     language |-> "en",
     timestamp |-> t,
     tweet_id |-> tweet_id]

\* the body of the loop of _parse_tweets over one timeline item; "href" is the
\* href of its .tweet-link, "body" the text of the .tweet-content of its .tweet-body
parse_tweet(acc, account, last_seen_id, timeline_item, t) ==
    IF acc.stopped THEN acc
    ELSE IF "href" \notin DOMAIN timeline_item THEN acc
    ELSE LET tweet_id == RemoveHashM(LastSegment(timeline_item.href))
         IN IF tweet_id = <<>> THEN acc
            ELSE IF "body" \notin DOMAIN timeline_item THEN acc
            ELSE IF tweet_id = last_seen_id THEN [acc EXCEPT !.stopped = TRUE]
            ELSE LET newest == IF acc.newest_id = <<>> \/ StrLess(acc.newest_id, tweet_id)
                               THEN tweet_id ELSE acc.newest_id
                     content == timeline_item.body
                 IN IF content = <<>> \/ ~nitter_keywords_ok(account, content)
                    THEN [acc EXCEPT !.newest_id = newest]
                    ELSE [acc EXCEPT !.newest_id = newest,
                                     !.items = Append(acc.items,
                                         nitter_item(account, tweet_id, content, t))]

\* the loop of _parse_tweets over the first n timeline items
RECURSIVE parse_loop(_, _, _, _, _)
parse_loop(account, last_seen_id, timeline_items, n, t) ==
    IF n = 0 THEN [items |-> <<>>, newest_id |-> last_seen_id, stopped |-> FALSE]
    ELSE parse_tweet(parse_loop(account, last_seen_id, timeline_items, n - 1, t),
                     account, last_seen_id, timeline_items[n], t)

\* _parse_tweets: the items returned and the checkpoints stored
parse_tweets(timeline_items, account, checkpoints, t) ==
    LET last_seen_id == Get(checkpoints, account.handle, <<>>)
        r == parse_loop(account, last_seen_id, timeline_items,
                        Min(Len(timeline_items), TimelineLimit), t)
    IN [items |-> r.items,
        last_seen |-> IF r.newest_id # <<>>
                      THEN Put(checkpoints, account.handle, r.newest_id)
                      ELSE checkpoints]

\* [i for i in instances if i not in failed]
RECURSIVE Available(_, _)
Available(instances, failed) ==
    IF instances = <<>> THEN <<>>
    ELSE IF instances[1] \in failed THEN Available(Tail(instances), failed)
    ELSE <<instances[1]>> \o Available(Tail(instances), failed)

RECURSIVE Factorial(_)
Factorial(n) == IF n <= 1 THEN 1 ELSE n * Factorial(n - 1)

\* _current_instance_idx is only ever read modulo the number of available
\* instances, 1..len(instances): it is kept modulo a common multiple of those
IdxPeriod(instances) == Factorial(Len(instances))

\* mutant: the rotation runs over every instance, failed or not
get_next_instance_any(instances, failed, idx) ==
    [instance |-> instances[(idx % Len(instances)) + 1],
     failed |-> IF Available(instances, failed) = <<>> THEN {} ELSE failed,
     idx |-> (idx + 1) % IdxPeriod(instances)]

\* _get_next_instance: the instance chosen, the failed set and the index after
get_next_instance(instances, failed, idx) ==
    LET first == Available(instances, failed)
        available == IF first = <<>> THEN instances ELSE first
    IN [instance |-> available[(idx % Len(available)) + 1],
        failed |-> IF first = <<>> THEN {} ELSE failed,
        idx |-> (idx + 1) % IdxPeriod(instances)]

----------------------------------------------------------------------------
\* The Deduplicator driven through its two public methods

\* items offered to the Deduplicator: two share a link, two have no usable link
DedupItems ==
    { [link |-> <<97>>, title |-> <<97>>, source |-> <<98>>],
      [link |-> <<97>>, title |-> <<98>>, source |-> <<97>>],
      [title |-> <<97>>, source |-> <<98>>],
      [link |-> <<>>, title |-> <<97>>, source |-> <<98>>] }

\* hashes of items seen long ago, one short of the cleanup threshold
FillerHashes == {generate_hash([link |-> <<k, k>>]) : k \in 1..(CleanupMinSize - 1)}

NoCall == [op |-> "none"]

\* NitterCollector(accounts, instances) as constructed
NitConstructed(accounts, instances) ==
    /\ nit_instances = instances
    /\ nit_accounts = accounts
    /\ nit_last_seen = EmptyDict
    /\ nit_idx = 0
    /\ nit_failed = {}
    /\ nit_pc = "idle"
    /\ nit_account = 0
    /\ nit_attempt = 0
    /\ nit_instance = "none"
    /\ nit_tried = {}
    /\ nit_results = [a \in DOMAIN accounts |-> <<>>]

InitNitIdle == NitConstructed(<<>>, <<"nitter.privacydev.net">>)

\* the loops run() can start
Loops == {"rss", "nitter"}

\* no delivery yet
NoDelivery == [hash |-> -1, at |-> -1, previous |-> -1, category |-> "none",
               topic |-> "none", priority |-> 0]

\* Scheduler(sources_config, filters_config, ntfy_config) as constructed
SchConstructed(sources_config, filters_config) ==
    /\ sch_sources = sources_config
    /\ sch_filters = filters_config
    /\ sch_running = FALSE
    /\ sch_tasks = {}
    /\ sch_pc = [l \in Loops |-> "none"]
    /\ sch_items = [l \in Loops |-> <<>>]
    /\ sch_holder = "none"
    /\ sch_dispatched = EmptyDict
    /\ sch_sent = NoDelivery
    /\ sch_errors = [l \in Loops |-> 0]
    /\ sch_shutdown = "no"
    /\ sch_closed = FALSE

InitSchIdle == SchConstructed(EmptyDict, EmptyDict)

NotFetched == [ok |-> FALSE, entries |-> <<>>, no_new |-> FALSE]

\* RSSCollector(feeds) as constructed
RssConstructed(feeds) ==
    /\ rss_feeds = feeds
    /\ rss_last_seen = EmptyDict
    /\ rss_pc = "idle"
    /\ rss_pending = {}
    /\ rss_results = [f \in DOMAIN feeds |-> <<>>]
    /\ rss_prev = [f \in DOMAIN feeds |-> NotFetched]

InitRssIdle == RssConstructed(<<>>)

NoResult == [score |-> 0, category |-> "not scored"]

InitScoreIdle ==
    /\ sc_item = EmptyDict /\ sc_keywords = <<>> /\ sc_keywords2 = <<>>
    /\ sc_result = NoResult /\ sc_result2 = NoResult

CallRecord(op, item, r) ==
    [op |-> op, hash |-> generate_hash(item), time |-> now, result |-> r.result,
     raised |-> r.raised, store_tried |-> r.store_tried, store_failed |-> r.store_failed]

InitDedupState ==
    /\ now = 0
    /\ redis \in BOOLEAN
    /\ redis_up = TRUE
    /\ redis_store = EmptyDict
    /\ memory_cache \in {EmptyDict, [h \in FillerHashes |-> 0]}
    /\ last = NoCall
    /\ marked_at = EmptyDict

InitHashIdle ==
    /\ hash_a = EmptyDict /\ hash_b = EmptyDict
    /\ hash_of_a = 0 /\ hash_of_b = 0

\* send has posted nothing yet
NoRequest == [title |-> <<>>, body |-> <<>>, posted |-> FALSE]

\* no call of send
InitSendIdle ==
    /\ nt_title = <<>> /\ nt_message = <<>>
    /\ nt_max_title = 0 /\ nt_max_body = 0 /\ nt_include_timestamp = FALSE
    /\ nt_request = NoRequest

\* no call of the pure helpers
InitNtfyIdle ==
    /\ nt_score = 0 /\ nt_priority = 0
    /\ nt_text = <<>> /\ nt_max = 0 /\ nt_truncated = <<>>
    /\ InitSendIdle

InitDedup == InitDedupState /\ InitHashIdle /\ InitNtfyIdle /\ InitScoreIdle /\ InitRssIdle /\ InitNitIdle /\ InitSchIdle

\* await deduplicator.is_duplicate(item)
IsDuplicate(item) ==
    LET r == is_duplicate(item)
    IN /\ memory_cache' = r.cache
       /\ redis' = r.redis
       /\ last' = CallRecord("is_duplicate", item, r)
       /\ UNCHANGED <<now, redis_up, redis_store, marked_at>>

\* await deduplicator.mark_seen(item)
MarkSeen(item) ==
    LET r == mark_seen(item)
    IN /\ memory_cache' = r.cache
       /\ redis_store' = r.store
       /\ redis' = r.redis
       /\ last' = CallRecord("mark_seen", item, r @@ [result |-> FALSE])
       /\ marked_at' = Put(marked_at, generate_hash(item), now)
       /\ UNCHANGED <<now, redis_up>>

\* a second passes; the store drops the keys whose expiry is reached
Tick ==
    /\ now < MaxTime
    /\ now' = now + 1
    /\ redis_store' = [h \in {k \in DOMAIN redis_store : now + 1 < redis_store[k]}
                         |-> redis_store[h]]
    /\ UNCHANGED <<redis, redis_up, memory_cache, last, marked_at>>

\* the external store becomes unreachable: its calls raise
RedisFail ==
    /\ redis /\ redis_up
    /\ redis_up' = FALSE
    /\ UNCHANGED <<now, redis, redis_store, memory_cache, last, marked_at>>

\* the external store is reachable again
RedisRecover ==
    /\ redis /\ ~redis_up
    /\ redis_up' = TRUE
    /\ UNCHANGED <<now, redis, redis_store, memory_cache, last, marked_at>>

NextDedup ==
    \/ \E item \in DedupItems : IsDuplicate(item) /\ UNCHANGED <<hashVars, scoreVars, rssVars, nitVars, schVars, ntfyVars>>
    \/ \E item \in DedupItems : MarkSeen(item) /\ UNCHANGED <<hashVars, scoreVars, rssVars, nitVars, schVars, ntfyVars>>
    \/ Tick /\ UNCHANGED <<hashVars, scoreVars, rssVars, nitVars, schVars, ntfyVars>>
    \/ RedisFail /\ UNCHANGED <<hashVars, scoreVars, rssVars, nitVars, schVars, ntfyVars>>
    \/ RedisRecover /\ UNCHANGED <<hashVars, scoreVars, rssVars, nitVars, schVars, ntfyVars>>

SpecDedup == InitDedup /\ [][NextDedup]_vars

----------------------------------------------------------------------------
\* Claims about the Deduplicator (checked under SpecDedup)

\* C2: with the in-process store only, is_duplicate answers true exactly when
\* the hash was marked and no more than the window has elapsed since its latest
\* mark_seen; when it answers false the entry is gone from the map; a hash that
\* was never marked is answered false.
C2_MemoryWindow ==
    (~redis /\ last.op = "is_duplicate") =>
        /\ last.result = (/\ last.hash \in DOMAIN marked_at
                          /\ last.time - marked_at[last.hash] <= WindowSeconds)
        /\ (~last.result => last.hash \notin DOMAIN memory_cache)

\* a check made after the window elapsed answered false
C2_Witness ==
    /\ ~redis /\ last.op = "is_duplicate"
    /\ last.hash \in DOMAIN marked_at
    /\ last.time - marked_at[last.hash] > WindowSeconds
    /\ ~last.result

\* C3: with an external store configured, the is_duplicate call that
\* immediately follows mark_seen of the same hash, within the window, answers
\* true, whatever the store's calls did in between.
C3_MarkedThenDuplicate ==
    [][ ( /\ redis
          /\ last.op = "mark_seen"
          /\ last'.op = "is_duplicate"
          /\ last'.hash = last.hash
          /\ last'.time - last.time < WindowSeconds )
        => last'.result ]_vars

\* C4: with an external store configured, a call whose store call raises does
\* not raise to the caller, is answered from (or written to) the in-process map
\* and leaves the store configured, so that every call tries the store.
C4_FallbackPerCall ==
    [][ (redis /\ last' # last /\ last'.op # "none") =>
          /\ ~last'.raised
          /\ last'.store_tried
          /\ redis'
          /\ ~redis_up =>
               /\ last'.store_failed
               /\ redis_store' = redis_store
               /\ last'.op = "is_duplicate" =>
                    last'.result = (/\ last'.hash \in DOMAIN memory_cache
                                    /\ now - memory_cache[last'.hash] <= WindowSeconds)
               /\ last'.op = "mark_seen" =>
                    /\ last'.hash \in DOMAIN memory_cache'
                    /\ memory_cache'[last'.hash] = now ]_vars

\* a check during an outage was answered true from the in-process map
C4_Witness ==
    /\ redis /\ last.op = "is_duplicate"
    /\ last.store_tried /\ last.store_failed /\ last.result

----------------------------------------------------------------------------
\* _generate_hash applied to two items

Missing == <<-1>>

\* a dict entry, or none when the value is missing
Opt(k, v) == IF v = Missing THEN EmptyDict ELSE [x \in {k} |-> v]

HashItems ==
    { Opt("link", l) @@ Opt("title", t) @@ Opt("source", s) :
        l \in {Missing, <<>>, <<97>>, <<98>>},
        t \in {Missing, <<97>>, <<98>>},
        s \in {Missing, <<97>>, <<98, 58>>} }

InitHash ==
    /\ hash_a \in HashItems /\ hash_b \in HashItems
    /\ hash_of_a = -1 /\ hash_of_b = -1
    /\ now = 0 /\ redis = FALSE /\ redis_up = TRUE /\ redis_store = EmptyDict
    /\ memory_cache = EmptyDict /\ last = NoCall /\ marked_at = EmptyDict
    /\ InitScoreIdle /\ InitRssIdle /\ InitNitIdle /\ InitSchIdle /\ InitNtfyIdle

GenerateHash ==
    /\ hash_of_a = -1
    /\ hash_of_a' = generate_hash(hash_a)
    /\ hash_of_b' = generate_hash(hash_b)
    /\ UNCHANGED <<hash_a, hash_b>>

NextHash == GenerateHash /\ UNCHANGED <<dedupVars, scoreVars, rssVars, nitVars, schVars, ntfyVars>>

SpecHash == InitHash /\ [][NextHash]_vars

\* C5: two items with the same non-empty link get the same hash whatever their
\* other fields; two items with an empty or missing link get the same hash when
\* their (source, title) pairs agree.
C5_HashIdentity ==
    hash_of_a # -1 =>
        /\ ( /\ Get(hash_a, "link", <<>>) # <<>>
             /\ Get(hash_a, "link", <<>>) = Get(hash_b, "link", <<>>) )
           => hash_of_a = hash_of_b
        /\ ( /\ Get(hash_a, "link", <<>>) = <<>>
             /\ Get(hash_b, "link", <<>>) = <<>>
             /\ Get(hash_a, "source", <<>>) = Get(hash_b, "source", <<>>)
             /\ Get(hash_a, "title", <<>>) = Get(hash_b, "title", <<>>) )
           => hash_of_a = hash_of_b

\* two items sharing a link and differing in title and source were hashed alike
C5_Witness ==
    /\ hash_of_a # -1 /\ hash_of_a = hash_of_b
    /\ Get(hash_a, "link", <<>>) = <<97>> /\ Get(hash_b, "link", <<>>) = <<97>>
    /\ "title" \in DOMAIN hash_a /\ "title" \notin DOMAIN hash_b
    /\ Get(hash_a, "source", <<>>) # Get(hash_b, "source", <<>>)

----------------------------------------------------------------------------
\* score() applied to one item under two orders of the keyword configuration

\* keyword categories a configuration is made of: name, score, words
\* ("a"; "b"; "a", "b"; "b", "$a"; "ab")
KeywordPool ==
    { [name |-> "critical_en", score |-> 50, words |-> << <<97>> >>],
      [name |-> "regulatory_en", score |-> 30, words |-> << <<98>> >>],
      [name |-> "protocol", score |-> 10, words |-> << <<97>>, <<98>> >>],
      [name |-> "market", score |-> 10, words |-> << <<98>>, <<36, 97>> >>],
      [name |-> "noise", score |-> -20, words |-> << <<97, 98>> >>] }

\* a configuration: up to MaxCategories distinct categories, in order
KeywordConfigs ==
    UNION { { k \in [1..n -> KeywordPool] : \A i, j \in 1..n : k[i] = k[j] => i = j } :
            n \in 0..MaxCategories }

\* items passed to score(): titles "a", "A b", "$a", "b$a", "ab" or none,
\* summaries "b" or none, with or without a boost and a category
ScoreItems ==
    { t @@ s @@ b @@ c :
        t \in { EmptyDict, [title |-> <<97>>], [title |-> <<65, 32, 98>>],
                [title |-> <<36, 97>>], [title |-> <<98, 36, 97>>],
                [title |-> <<97, 98>>] },
        s \in { EmptyDict, [summary |-> <<98>>] },
        b \in { EmptyDict, [priority_boost |-> 20] },
        c \in { EmptyDict, [category |-> "social"] } }

InitScore ==
    /\ sc_item \in ScoreItems
    /\ sc_keywords \in KeywordConfigs
    /\ sc_keywords2 \in { k \in KeywordConfigs :
                            /\ Len(k) = Len(sc_keywords)
                            /\ \A i \in 1..Len(k) : \E j \in 1..Len(k) : k[i] = sc_keywords[j] }
    /\ sc_result = NoResult /\ sc_result2 = NoResult
    /\ now = 0 /\ redis = FALSE /\ redis_up = TRUE /\ redis_store = EmptyDict
    /\ memory_cache = EmptyDict /\ last = NoCall /\ marked_at = EmptyDict
    /\ InitHashIdle /\ InitNtfyIdle /\ InitRssIdle /\ InitNitIdle /\ InitSchIdle

\* scorer.score(item), for the scorer of each configuration order
Score ==
    /\ sc_result = NoResult
    /\ sc_result' = score(sc_item, sc_keywords)
    /\ sc_result2' = score(sc_item, sc_keywords2)
    /\ UNCHANGED <<sc_item, sc_keywords, sc_keywords2>>

NextScore == Score /\ UNCHANGED <<dedupVars, hashVars, rssVars, nitVars, schVars, ntfyVars>>

SpecScore == InitScore /\ [][NextScore]_vars

----------------------------------------------------------------------------
\* Claims about score() (checked under SpecScore)

\* the keyword stands in text as a whole word: delimited on each side by the
\* end of the text or by a character that is not a word character
WholeWordOccurs(word, text) ==
    \E p \in 0..Len(text) :
        /\ MatchesAt(word, text, p)
        /\ (p = 0 \/ ~IsWordChar(text[p]))
        /\ (p + Len(word) = Len(text) \/ ~IsWordChar(text[p + Len(word) + 1]))

\* the weights of the first n keywords of a category that occur as whole words
RECURSIVE WholeWordWeights(_, _, _)
WholeWordWeights(settings, text, n) ==
    IF n = 0 THEN 0
    ELSE WholeWordWeights(settings, text, n - 1)
         + (IF WholeWordOccurs(settings.words[n], text) THEN settings.score ELSE 0)

RECURSIVE AllWholeWordWeights(_, _, _)
AllWholeWordWeights(keywords, text, n) ==
    IF n = 0 THEN 0
    ELSE AllWholeWordWeights(keywords, text, n - 1)
         + WholeWordWeights(keywords[n], text, Len(keywords[n].words))

\* C8: the score is the item's priority_boost plus, over every keyword category,
\* the weights of the category's keywords that occur as case-insensitive whole
\* words in title + " " + summary, each keyword counted once.
C8_AdditiveScore ==
    sc_result # NoResult =>
        sc_result.score =
            Get(sc_item, "priority_boost", 0)
            + AllWholeWordWeights(sc_keywords, score_text(sc_item), Len(sc_keywords))

\* C9: the score is the same under every order of the keyword categories.
C9_OrderIndependentScore ==
    sc_result # NoResult => sc_result.score = sc_result2.score

\* boost 20 with matches weighted 50 and 30 scored 100 under two different orders
C9_Witness ==
    /\ sc_result # NoResult
    /\ sc_keywords # sc_keywords2
    /\ Get(sc_item, "priority_boost", 0) = 20
    /\ {sc_keywords[i].score : i \in 1..Len(sc_keywords)} = {50, 30}
    /\ sc_result.score = 100 /\ sc_result2.score = 100

\* the summed matched weight of the n-th configured category
CategorySum(item, keywords, n) ==
    category_score(keywords[n], score_text(item), Len(keywords[n].words))

\* the n-th configured category has at least one matching keyword
CategoryMatched(item, keywords, n) ==
    \E w \in 1..Len(keywords[n].words) :
        pattern_search(keywords[n].words[w], score_text(item))

\* the category mapped from the first of the candidates with the largest sum,
\* the item's own category (or "news") when there is no candidate
SelectedCategory(item, keywords, candidates) ==
    IF candidates = {} THEN Get(item, "category", "news")
    ELSE LET first == CHOOSE i \in candidates :
                        /\ \A j \in candidates :
                             CategorySum(item, keywords, j) <= CategorySum(item, keywords, i)
                        /\ \A j \in candidates :
                             CategorySum(item, keywords, j) = CategorySum(item, keywords, i)
                             => i <= j
         IN map_category(keywords[first].name)

NotificationCategory(keyword_category) ==
    CASE keyword_category \in {"critical_en", "critical_pt"} -> "security"
      [] keyword_category \in {"regulatory_en", "regulatory_pt"} -> "regulatory"
      [] keyword_category = "protocol" -> "protocol"
      [] keyword_category = "market" -> "market"

MappedKeywordCategories ==
    {"critical_en", "critical_pt", "regulatory_en", "regulatory_pt", "protocol", "market"}

\* the first of the candidates with the largest summed matched weight
FirstLargest(item, keywords, candidates) ==
    CHOOSE i \in candidates :
        /\ \A j \in candidates :
             CategorySum(item, keywords, j) <= CategorySum(item, keywords, i)
        /\ \A j \in candidates :
             CategorySum(item, keywords, j) = CategorySum(item, keywords, i) => i <= j

----------------------------------------------------------------------------
\* The RSSCollector over passes of collect()

\* entries a feed document is made of: published 1 ("a"), published 2 ("B"),
\* an unparseable published with updated 3 ("a"), created 2 ("a b"), an
\* unparseable published alone ("B"), and no date at all ("a")
RssEntryPool ==
    { [published |-> 1, title |-> <<97>>, link |-> <<49>>],
      [published |-> 2, title |-> <<66>>, link |-> <<50>>],
      [published |-> BadDate, updated |-> 3, title |-> <<97>>, link |-> <<51>>],
      [created |-> 2, title |-> <<97, 32, 98>>],
      [published |-> BadDate, title |-> <<66>>, link |-> <<53>>],
      [title |-> <<97>>, link |-> <<54>>] }

\* the entry lists feedparser.parse can return
RssDocuments == UNION { [1..n -> RssEntryPool] : n \in 0..MaxEntries }

Range(f) == {f[x] : x \in DOMAIN f}

InitRss ==
    /\ \E feed \in RssFeedPool : RssConstructed(<<feed>>)
    /\ now = 0 /\ redis = FALSE /\ redis_up = TRUE /\ redis_store = EmptyDict
    /\ memory_cache = EmptyDict /\ last = NoCall /\ marked_at = EmptyDict
    /\ InitHashIdle /\ InitNtfyIdle /\ InitScoreIdle /\ InitNitIdle /\ InitSchIdle

\* collect() starts one _fetch_feed per feed and awaits them all
RssCollect ==
    /\ rss_pc = "idle"
    /\ rss_pc' = "gather"
    /\ rss_pending' = DOMAIN rss_feeds
    /\ rss_results' = [f \in DOMAIN rss_feeds |-> <<>>]
    /\ rss_prev' = [f \in DOMAIN rss_feeds |-> [rss_prev[f] EXCEPT !.no_new = FALSE]]
    /\ UNCHANGED <<rss_feeds, rss_last_seen>>

\* _fetch_feed of feed f got its document and parsed it into entries
RssFetchFeed(f, entries) ==
    /\ rss_pc = "gather" /\ f \in rss_pending
    /\ LET r == fetch_feed(rss_feeds[f], rss_last_seen, entries, now)
       IN /\ rss_last_seen' = r.last_seen
          /\ rss_results' = [rss_results EXCEPT ![f] = r.items]
    /\ rss_pending' = rss_pending \ {f}
    /\ rss_prev' = [rss_prev EXCEPT ![f] =
                       [ok |-> TRUE, entries |-> entries,
                        no_new |-> /\ rss_prev[f].ok
                                   /\ Range(entries) \subseteq Range(rss_prev[f].entries)]]
    /\ UNCHANGED <<rss_feeds, rss_pc>>

\* mutant: a failed fetch forgets the feed's checkpoint
on_fetch_failed_forgets(checkpoints, url) == Del(checkpoints, url)

\* _fetch_feed returns [] from its failure branches, before it reads or writes
\* _last_seen
on_fetch_failed(checkpoints, url) == checkpoints

\* _fetch_feed of feed f failed: a status other than 200, an exception of the
\* request (a timeout, a connection error) or of the parser; it returns []
RssFetchFails(f) ==
    /\ rss_pc = "gather" /\ f \in rss_pending
    /\ rss_pending' = rss_pending \ {f}
    /\ rss_prev' = [rss_prev EXCEPT ![f] = NotFetched]
    /\ rss_last_seen' = on_fetch_failed(rss_last_seen, rss_feeds[f].url)
    /\ UNCHANGED <<rss_feeds, rss_pc, rss_results>>

\* asyncio.gather returned: collect() returns the feeds' items
RssCollectReturn ==
    /\ rss_pc = "gather" /\ rss_pending = {}
    /\ rss_pc' = "idle"
    /\ UNCHANGED <<rss_feeds, rss_last_seen, rss_pending, rss_results, rss_prev>>

\* the clock of the collectors
CollectorTick ==
    /\ now < MaxTime
    /\ now' = now + 1
    /\ UNCHANGED <<redis, redis_up, redis_store, memory_cache, last, marked_at>>

NextRss ==
    \/ RssCollect /\ UNCHANGED <<dedupVars, hashVars, scoreVars, nitVars, schVars, ntfyVars>>
    \/ \E f \in DOMAIN rss_feeds, entries \in RssDocuments :
         RssFetchFeed(f, entries) /\ UNCHANGED <<dedupVars, hashVars, scoreVars, nitVars, schVars, ntfyVars>>
    \/ \E f \in DOMAIN rss_feeds :
         RssFetchFails(f) /\ UNCHANGED <<dedupVars, hashVars, scoreVars, nitVars, schVars, ntfyVars>>
    \/ RssCollectReturn /\ UNCHANGED <<dedupVars, hashVars, scoreVars, nitVars, schVars, ntfyVars>>
    \/ CollectorTick /\ UNCHANGED <<hashVars, scoreVars, rssVars, nitVars, schVars, ntfyVars>>

SpecRss == InitRss /\ [][NextRss]_vars

----------------------------------------------------------------------------
\* Claims about the RSSCollector (checked under SpecRss)

\* the stored timestamp checkpoint of a feed never decreases
RssCheckpointMonotone ==
    [][ \A url \in DOMAIN rss_last_seen :
          /\ url \in DOMAIN rss_last_seen'
          /\ rss_last_seen'[url] >= rss_last_seen[url] ]_vars

\* C7 as claimed: a pass over a feed whose entry list holds nothing that the
\* previous pass over the feed did not parse yields zero items.
C7_SecondPassEmpty ==
    \A f \in DOMAIN rss_feeds : rss_prev[f].no_new => rss_results[f] = <<>>

\* the entries among the first n that have no parseable timestamp and pass the
\* feed's required-keyword filter
RECURSIVE UndatedKept(_, _, _)
UndatedKept(feed_config, entries, n) ==
    IF n = 0 THEN <<>>
    ELSE LET rest == UndatedKept(feed_config, entries, n - 1)
         IN IF /\ parse_timestamp(entries[n]) = NoTimestamp
               /\ rss_keywords_ok(feed_config, entries[n])
            THEN Append(rest, entries[n]) ELSE rest

\* C7 amended: such a pass yields no item of an entry with a parseable
\* timestamp; it yields again, in order, the entries that have no parseable
\* timestamp and pass the feed's required-keyword filter.
C7_SecondPassOnlyUndated ==
    \A f \in DOMAIN rss_feeds :
        rss_prev[f].no_new =>
            LET kept == UndatedKept(rss_feeds[f], rss_prev[f].entries,
                                    Len(rss_prev[f].entries))
            IN /\ Len(rss_results[f]) = Len(kept)
               /\ \A i \in 1..Len(kept) :
                    rss_results[f][i] =
                        rss_item(rss_feeds[f], kept[i], NoTimestamp,
                                 rss_results[f][i].timestamp)

\* a second pass over the same dated entries returned nothing
C7_Witness ==
    \E f \in DOMAIN rss_feeds :
        /\ rss_prev[f].no_new
        /\ rss_prev[f].entries # <<>>
        /\ \A i \in 1..Len(rss_prev[f].entries) :
             /\ parse_timestamp(rss_prev[f].entries[i]) # NoTimestamp
             /\ rss_keywords_ok(rss_feeds[f], rss_prev[f].entries[i])
        /\ rss_results[f] = <<>>

----------------------------------------------------------------------------
\* The NitterCollector over passes of collect()

\* the monitored accounts: "h1"; "h2", which requires the keyword "b"
NitterAccounts ==
    << [handle |-> <<104, 49>>, category |-> "social", priority_boost |-> 10],
       [handle |-> <<104, 50>>, keywords_required |-> << <<98>> >>] >>

NitterInstances == <<"i1", "i2", "i3">>

\* timeline items a page is made of: tweet 9 ("b"), tweet 10 ("a"), tweet 10
\* without text, tweet 9 without a body, an item without a link
TimelineItemPool ==
    { [href |-> <<47, 115, 47, 57, 35, 109>>, body |-> <<98>>],
      [href |-> <<47, 115, 47, 49, 48, 35, 109>>, body |-> <<97>>],
      [href |-> <<47, 115, 47, 49, 48, 35, 109>>, body |-> <<>>],
      [href |-> <<47, 115, 47, 57, 35, 109>>],
      [body |-> <<98>>] }

\* the pages an instance can answer with
NitterPages == UNION { [1..n -> TimelineItemPool] : n \in 0..MaxPage }

InitNit ==
    /\ NitConstructed(NitterAccounts, NitterInstances)
    /\ now = 0 /\ redis = FALSE /\ redis_up = TRUE /\ redis_store = EmptyDict
    /\ memory_cache = EmptyDict /\ last = NoCall /\ marked_at = EmptyDict
    /\ InitHashIdle /\ InitNtfyIdle /\ InitScoreIdle /\ InitRssIdle /\ InitSchIdle

\* _fetch_account starts an iteration of its instance loop: it takes the next
\* instance and sends the request
NitRequest(account, attempt, failed) ==
    LET g == get_next_instance(nit_instances, failed, nit_idx)
    IN /\ nit_pc' = "fetch"
       /\ nit_account' = account
       /\ nit_attempt' = attempt
       /\ nit_instance' = g.instance
       /\ nit_tried' = IF attempt = 1 THEN {g.instance} ELSE nit_tried \cup {g.instance}
       /\ nit_failed' = g.failed
       /\ nit_idx' = g.idx

\* collect() is called: it fetches the first account
NitCollect ==
    /\ nit_pc = "idle" /\ nit_accounts # <<>>
    /\ NitRequest(1, 1, nit_failed)
    /\ nit_results' = [a \in DOMAIN nit_accounts |-> <<>>]
    /\ UNCHANGED <<nit_instances, nit_accounts, nit_last_seen>>

\* mutant: a handle that no instance served ends the pass
on_account_exhausted_raises == "idle"

\* _fetch_account returns [] once len(instances) iterations have failed, and
\* collect() goes on to the pause before the next handle
on_account_exhausted == "sleep"

\* mutant: one more iteration than there are instances
attempts_allowed_more(instances) == Len(instances) + 1

\* _fetch_account: for _ in range(len(self.instances))
attempts_allowed(instances) == Len(instances)

\* the instance answered 429 or another status than 200, the request timed out
\* or raised: the instance is marked failed and the next one is tried, until
\* len(instances) iterations are done
NitAttemptFails(kind) ==
    /\ nit_pc = "fetch"
    /\ IF nit_attempt < attempts_allowed(nit_instances)
       THEN NitRequest(nit_account, nit_attempt + 1, nit_failed \cup {nit_instance})
       ELSE /\ nit_pc' = on_account_exhausted
            /\ nit_failed' = nit_failed \cup {nit_instance}
            /\ UNCHANGED <<nit_account, nit_attempt, nit_instance, nit_tried, nit_idx>>
    /\ UNCHANGED <<nit_instances, nit_accounts, nit_last_seen, nit_results>>

\* the instance answered 200 with a page: _parse_tweets
NitPage(timeline_items) ==
    /\ nit_pc = "fetch"
    /\ LET r == parse_tweets(timeline_items, nit_accounts[nit_account], nit_last_seen, now)
       IN /\ nit_last_seen' = r.last_seen
          /\ nit_results' = [nit_results EXCEPT ![nit_account] = r.items]
    /\ nit_pc' = "sleep"
    /\ UNCHANGED <<nit_instances, nit_accounts, nit_idx, nit_failed, nit_account,
                   nit_attempt, nit_instance, nit_tried>>

\* the pause between accounts is over: the next account, or collect() returns
NitSleepDone ==
    /\ nit_pc = "sleep"
    /\ IF nit_account < Len(nit_accounts)
       THEN NitRequest(nit_account + 1, 1, nit_failed)
       ELSE /\ nit_pc' = "idle"
            /\ UNCHANGED <<nit_account, nit_attempt, nit_instance, nit_tried, nit_failed,
                           nit_idx>>
    /\ UNCHANGED <<nit_instances, nit_accounts, nit_last_seen, nit_results>>

NextNit ==
    \/ NitCollect /\ UNCHANGED <<dedupVars, hashVars, scoreVars, rssVars, schVars, ntfyVars>>
    \/ \E kind \in {"429", "status", "timeout", "error"} :
         NitAttemptFails(kind) /\ UNCHANGED <<dedupVars, hashVars, scoreVars, rssVars, schVars, ntfyVars>>
    \/ \E timeline_items \in NitterPages :
         NitPage(timeline_items) /\ UNCHANGED <<dedupVars, hashVars, scoreVars, rssVars, schVars, ntfyVars>>
    \/ NitSleepDone /\ UNCHANGED <<dedupVars, hashVars, scoreVars, rssVars, schVars, ntfyVars>>

SpecNit == InitNit /\ [][NextNit]_vars

----------------------------------------------------------------------------
\* Both collectors with several sources per pass

\* the feeds "F1" and "F2"
CollectFeeds ==
    << [url |-> <<117, 49>>, name |-> <<70, 49>>, category |-> "security",
        priority_boost |-> 20],
       [url |-> <<117, 50>>, name |-> <<70, 50>>, keywords_required |-> << <<98>> >>] >>

\* the documents a feed answers with: no entry; "a" published 1; "B" published
\* 2 before "a" published 1
CollectDocuments ==
    { <<>>,
      << [published |-> 1, title |-> <<97>>, link |-> <<49>>] >>,
      << [published |-> 2, title |-> <<66>>, link |-> <<50>>],
         [published |-> 1, title |-> <<97>>, link |-> <<49>>] >> }

\* the pages an instance answers with: no item; tweet 9 ("b"); tweet 10 ("a")
\* above tweet 9 ("b")
CollectPages ==
    { <<>>,
      << [href |-> <<47, 115, 47, 57, 35, 109>>, body |-> <<98>>] >>,
      << [href |-> <<47, 115, 47, 49, 48, 35, 109>>, body |-> <<97>>],
         [href |-> <<47, 115, 47, 57, 35, 109>>, body |-> <<98>>] >> }

\* the Scheduler's two collectors: the RSSCollector over two feeds, or the
\* NitterCollector over two accounts and three instances
InitCollect ==
    /\ \/ RssConstructed(CollectFeeds) /\ InitNitIdle
       \/ InitRssIdle /\ NitConstructed(NitterAccounts, NitterInstances)
    /\ now = 0 /\ redis = FALSE /\ redis_up = TRUE /\ redis_store = EmptyDict
    /\ memory_cache = EmptyDict /\ last = NoCall /\ marked_at = EmptyDict
    /\ InitHashIdle /\ InitNtfyIdle /\ InitScoreIdle /\ InitSchIdle

NextCollect ==
    \/ RssCollect /\ UNCHANGED <<dedupVars, hashVars, scoreVars, nitVars, schVars, ntfyVars>>
    \/ \E f \in DOMAIN rss_feeds, entries \in CollectDocuments :
         RssFetchFeed(f, entries) /\ UNCHANGED <<dedupVars, hashVars, scoreVars, nitVars, schVars, ntfyVars>>
    \/ \E f \in DOMAIN rss_feeds :
         RssFetchFails(f) /\ UNCHANGED <<dedupVars, hashVars, scoreVars, nitVars, schVars, ntfyVars>>
    \/ RssCollectReturn /\ UNCHANGED <<dedupVars, hashVars, scoreVars, nitVars, schVars, ntfyVars>>
    \/ NitCollect /\ UNCHANGED <<dedupVars, hashVars, scoreVars, rssVars, schVars, ntfyVars>>
    \/ \E kind \in {"429", "status", "timeout", "error"} :
         NitAttemptFails(kind) /\ UNCHANGED <<dedupVars, hashVars, scoreVars, rssVars, schVars, ntfyVars>>
    \/ \E timeline_items \in CollectPages :
         NitPage(timeline_items) /\ UNCHANGED <<dedupVars, hashVars, scoreVars, rssVars, schVars, ntfyVars>>
    \/ NitSleepDone /\ UNCHANGED <<dedupVars, hashVars, scoreVars, rssVars, schVars, ntfyVars>>

SpecCollect == InitCollect /\ [][NextCollect]_vars

----------------------------------------------------------------------------
\* The NitterCollector against three instances of which "i1" answers 429 to
\* every request, "i2" answers a status other than 200 and "i3" serves a page

NextFailover ==
    \/ NitCollect /\ UNCHANGED <<dedupVars, hashVars, scoreVars, rssVars, schVars, ntfyVars>>
    \/ /\ nit_instance = "i1"
       /\ NitAttemptFails("429")
       /\ UNCHANGED <<dedupVars, hashVars, scoreVars, rssVars, schVars, ntfyVars>>
    \/ /\ nit_instance = "i2"
       /\ NitAttemptFails("status")
       /\ UNCHANGED <<dedupVars, hashVars, scoreVars, rssVars, schVars, ntfyVars>>
    \/ \E timeline_items \in NitterPages :
         /\ nit_instance = "i3"
         /\ NitPage(timeline_items)
         /\ UNCHANGED <<dedupVars, hashVars, scoreVars, rssVars, schVars, ntfyVars>>
    \/ NitSleepDone /\ UNCHANGED <<dedupVars, hashVars, scoreVars, rssVars, schVars, ntfyVars>>

SpecFailover == InitNit /\ [][NextFailover]_vars

\* the number a tweet id denotes; no checkpoint counts as 0
RECURSIVE IdValue(_)
IdValue(id) ==
    IF id = <<>> THEN 0
    ELSE 10 * IdValue(SubSeq(id, 1, Len(id) - 1)) + (id[Len(id)] - 48)

\* C6: over any sequence of passes the stored timestamp checkpoint of each feed
\* and the stored id checkpoint of each social handle never decreases
C6_CheckpointsNeverDecrease ==
    [][ /\ \A url \in DOMAIN rss_last_seen :
             url \in DOMAIN rss_last_seen' /\ rss_last_seen'[url] >= rss_last_seen[url]
        /\ \A handle \in DOMAIN nit_last_seen :
             /\ handle \in DOMAIN nit_last_seen'
             /\ IdValue(nit_last_seen'[handle]) >= IdValue(nit_last_seen[handle]) ]_vars

----------------------------------------------------------------------------
\* The Scheduler: the loops of run() over the shared Deduplicator, PriorityScorer
\* and NtfyClient. A task runs alone between two suspension points:
\* is_duplicate, score and mark_seen do not yield (the store client is called
\* synchronously); collect(), ntfy_client.send and asyncio.sleep do.

\* cancellation is delivered as CancelledError, which is a BaseException: the
\* handlers of the program, all "except Exception" or narrower, let it through.

\* filters_config.get("minimum_score", 40)
MinimumScoreDefault == 40
\* the check_interval defaults of the two loops
RssIntervalDefault == 60
NitterIntervalDefault == 120

\* _get_topic_for_category: the topic the filters configuration gives the
\* category, "crypto-social" when it gives none
get_topic_for_category(filters_config, category) ==
    Get(Get(filters_config, "category_topics", EmptyDict), category, "crypto-social")

\* mutant: a score of exactly 70 is still normal
get_priority_for_score_late(item_score) ==
    IF item_score >= 90 THEN 5
    ELSE IF item_score > 70 THEN 4
    ELSE IF item_score >= 50 THEN 3
    ELSE 2

\* _get_priority_for_score
get_priority_for_score(item_score) ==
    IF item_score >= 90 THEN 5
    ELSE IF item_score >= 70 THEN 4
    ELSE IF item_score >= 50 THEN 3
    ELSE 2

\* NtfyClient(ntfy_config).topics for a configuration and an environment that
\* name no topic
NtfyTopics ==
    [critical |-> "crypto-critical", regulatory |-> "crypto-regulatory",
     protocol |-> "crypto-protocol", social |-> "crypto-social"]

\* NtfyClient.get_topic_name
get_topic_name(topics, category) ==
    LET category_map == [security |-> "critical", regulatory |-> "regulatory",
                         protocol |-> "protocol", social |-> "social",
                         news |-> "regulatory", market |-> "social"]
        topic_key == Get(category_map, category, "social")
    IN Get(topics, topic_key, "crypto-social")

\* a category_topics table of filters.yaml that names the topics of NtfyTopics
CategoryTopics ==
    [security |-> "crypto-critical", regulatory |-> "crypto-regulatory",
     news |-> "crypto-regulatory", protocol |-> "crypto-protocol",
     social |-> "crypto-social", market |-> "crypto-social"]

\* mutant: an item whose score equals the minimum is skipped too
below_minimum_inclusive(item_score, min_score) == item_score <= min_score

\* if score < min_score: continue
below_minimum(item_score, min_score) == item_score < min_score

\* the keyword categories of filters_config, as the PriorityScorer holds them
SchedulerKeywords == << [name |-> "critical_en", score |-> 50, words |-> << <<97>> >>] >>

\* the feed "F1" and the account "h1" the collectors are configured with
SchedulerFeed == CHOOSE feed \in RssFeedPool : feed.name = <<70, 49>>
SchedulerAccount == NitterAccounts[1]

\* sources_config: both source kinds; the social kind disabled; no feed at all
SourcesBoth == [rss_feeds |-> <<SchedulerFeed>>, nitter_accounts |-> <<SchedulerAccount>>]
SourcesFeedsOnly == [rss_feeds |-> <<SchedulerFeed>>, nitter |-> [enabled |-> FALSE]]
SourcesSocialOnly == [rss_feeds |-> <<>>, nitter_accounts |-> <<SchedulerAccount>>]

\* the configurations the Scheduler is constructed with: sources_config,
\* filters_config (minimum_score absent, 55, or 70 with a category_topics table)
\* and whether REDIS_URL is set
SchedulerDeployments ==
    { [sources |-> SourcesBoth, filters |-> EmptyDict, redis |-> FALSE],
      [sources |-> SourcesFeedsOnly, filters |-> [minimum_score |-> 55], redis |-> TRUE],
      [sources |-> SourcesFeedsOnly,
       filters |-> [minimum_score |-> 70, category_topics |-> CategoryTopics],
       redis |-> FALSE],
      [sources |-> SourcesSocialOnly, filters |-> [minimum_score |-> 55], redis |-> TRUE] }

\* the link the Social Collector gives tweet 9 of "h1"
TweetLink == nitter_item(SchedulerAccount, <<57>>, <<97>>, 0).link

\* what collect() of a loop can return: for the feed loop the items of entries
\* "a" linking to tweet 9 of "h1" and "b"; for the social loop the items of
\* tweets 9 ("a") and 10 ("b") of "h1"
CollectedItems(loop, t) ==
    IF loop = "rss"
    THEN { rss_item(SchedulerFeed, entry, parse_timestamp(entry), t) :
             entry \in { [published |-> 1, title |-> <<97>>, link |-> TweetLink],
                         [published |-> 2, title |-> <<98>>, link |-> <<50>>] } }
    ELSE { nitter_item(SchedulerAccount, <<57>>, <<97>>, t),
           nitter_item(SchedulerAccount, <<49, 48>>, <<98>>, t) }

\* a pass returns at most MaxBatch of them, each at most once
CollectedBatches(loop, t) ==
    { batch \in UNION { [1..n -> CollectedItems(loop, t)] : n \in 0..MaxBatch } :
        \A i, j \in DOMAIN batch : i # j => batch[i] # batch[j] }

InitScheduler ==
    /\ \E d \in SchedulerDeployments :
         /\ SchConstructed(d.sources, d.filters)
         /\ redis = d.redis
    /\ now = 0 /\ redis_up = TRUE /\ redis_store = EmptyDict
    /\ memory_cache = EmptyDict /\ last = NoCall /\ marked_at = EmptyDict
    /\ InitHashIdle /\ InitNtfyIdle /\ InitScoreIdle /\ InitRssIdle /\ InitNitIdle

\* the interval a loop reads before its first pass:
\* sources_config.get("rss_feeds", [{}])[0].get("check_interval", 60) raises
\* IndexError on an empty feed list;
\* sources_config.get("nitter", {}).get("check_interval", 120)
loop_interval(sources_config, loop) ==
    IF loop = "rss"
    THEN LET feeds == Get(sources_config, "rss_feeds", <<EmptyDict>>)
         IN IF feeds = <<>> THEN [raised |-> TRUE, interval |-> 0]
            ELSE [raised |-> FALSE,
                  interval |-> Get(feeds[1], "check_interval", RssIntervalDefault)]
    ELSE [raised |-> FALSE,
          interval |-> Get(Get(sources_config, "nitter", EmptyDict),
                           "check_interval", NitterIntervalDefault)]

\* mutant: the social loop is started whatever the configuration says
nitter_enabled_always(sources_config) == TRUE

\* nitter_config.get("enabled", True) of run()
nitter_enabled(sources_config) ==
    Get(Get(sources_config, "nitter", EmptyDict), "enabled", TRUE)

\* run(): the feed loop is started, the social loop if it is enabled; each
\* task reads its interval and runs up to the request of its first collect()
SchRun ==
    /\ ~sch_running /\ sch_tasks = {} /\ sch_shutdown = "no"
    /\ sch_running' = TRUE
    /\ sch_tasks' = {"rss"} \cup
           (IF nitter_enabled(sch_sources) THEN {"nitter"} ELSE {})
    /\ sch_pc' = [l \in Loops |->
                    IF l \notin sch_tasks' THEN "none"
                    ELSE IF loop_interval(sch_sources, l).raised THEN "failed"
                    ELSE "collect"]
    /\ UNCHANGED <<sch_sources, sch_filters, sch_items, sch_holder, sch_dispatched,
                   sch_sent, sch_errors, sch_shutdown, sch_closed>>

\* _process_items goes on with the items left, or the loop goes to sleep
SchContinue(loop, items, errors) ==
    /\ sch_items' = [sch_items EXCEPT ![loop] = items]
    /\ sch_pc' = [sch_pc EXCEPT ![loop] = IF items # <<>> THEN "item" ELSE "sleep"]
    /\ sch_holder' = IF items # <<>> THEN loop ELSE "none"
    /\ sch_errors' = [sch_errors EXCEPT ![loop] = IF items # <<>> THEN errors ELSE 0]

\* collect() of the loop returns its items and _process_items starts
SchCollected(loop, items) ==
    /\ sch_shutdown = "no" /\ sch_holder = "none" /\ sch_pc[loop] = "collect"
    /\ SchContinue(loop, items, 0)
    /\ UNCHANGED <<sch_sources, sch_filters, sch_running, sch_tasks, sch_dispatched,
                   sch_sent, sch_shutdown, sch_closed>>
    /\ UNCHANGED dedupVars

\* collect() of the loop raises: the loop logs the error and goes to sleep
SchCollectRaises(loop) ==
    /\ sch_shutdown = "no" /\ sch_holder = "none" /\ sch_pc[loop] = "collect"
    /\ SchContinue(loop, <<>>, 0)
    /\ UNCHANGED <<sch_sources, sch_filters, sch_running, sch_tasks, sch_dispatched,
                   sch_sent, sch_shutdown, sch_closed>>
    /\ UNCHANGED dedupVars

\* mutant: an exception of one item ends the batch
after_item_error_aborts(items) == <<>>

\* except Exception inside the for loop of _process_items: the error is logged
\* and the loop goes on with the next item
after_item_error(items) == Tail(items)

\* _process_items on one item, up to the request of ntfy_client.send: a
\* duplicate and an item below the minimum score are skipped
SchProcessItem(loop) ==
    /\ sch_holder = loop /\ sch_pc[loop] = "item"
    /\ LET item == Head(sch_items[loop])
           r == is_duplicate(item)
           scored == score(item, SchedulerKeywords)
           min_score == Get(sch_filters, "minimum_score", MinimumScoreDefault)
       IN /\ memory_cache' = r.cache
          /\ redis' = r.redis
          /\ IF r.result \/ below_minimum(scored.score, min_score)
             THEN SchContinue(loop, Tail(sch_items[loop]), sch_errors[loop])
             ELSE /\ sch_pc' = [sch_pc EXCEPT ![loop] = "send"]
                  /\ sch_holder' = "none"
                  /\ UNCHANGED <<sch_items, sch_errors>>
    /\ UNCHANGED <<now, redis_up, redis_store, last, marked_at>>
    /\ UNCHANGED <<sch_sources, sch_filters, sch_running, sch_tasks, sch_dispatched,
                   sch_sent, sch_shutdown, sch_closed>>

\* is_duplicate or score raises for the item: nothing is sent or marked
SchItemRaises(loop) ==
    /\ sch_holder = loop /\ sch_pc[loop] = "item" /\ sch_errors[loop] < MaxErrors
    /\ SchContinue(loop, after_item_error(sch_items[loop]), sch_errors[loop] + 1)
    /\ UNCHANGED <<sch_sources, sch_filters, sch_running, sch_tasks, sch_dispatched,
                   sch_sent, sch_shutdown, sch_closed>>
    /\ UNCHANGED dedupVars

\* how a request of NtfyClient.send can end: the server answers 200 or another
\* status, the request times out, the transport fails otherwise
TransportOutcomes == {"200", "status", "timeout", "error"}

\* mutant: a timeout of the request is raised to the caller
send_raises_timeout(outcome) ==
    [raised |-> outcome \in {"timeout", "raise"}, delivered |-> outcome = "200"]

\* NtfyClient.send: the post and the reading of its response stand in a try that
\* catches httpx.TimeoutException and Exception; "raise" is an exception of the
\* statements before it
send(outcome) ==
    [raised |-> outcome = "raise", delivered |-> outcome = "200"]

\* ntfy_client.send of the loop's item ends; if it returned, the item is marked
\* seen (mark_seen may raise); _process_items goes on
SchSendReturns(loop, outcome, mark_raises) ==
    /\ sch_shutdown = "no" /\ sch_holder = "none" /\ sch_pc[loop] = "send"
    /\ (send(outcome).raised \/ mark_raises) => sch_errors[loop] < MaxErrors
    /\ send(outcome).raised => ~mark_raises
    /\ LET item == Head(sch_items[loop])
           item_hash == generate_hash(item)
           r == mark_seen(item)
           sent == send(outcome)
           scored == score(item, SchedulerKeywords)
       IN /\ IF sent.raised \/ mark_raises
             THEN /\ UNCHANGED <<memory_cache, redis_store, redis, marked_at>>
                  /\ SchContinue(loop, after_item_error(sch_items[loop]),
                                 sch_errors[loop] + 1)
             ELSE /\ memory_cache' = r.cache
                  /\ redis_store' = r.store
                  /\ redis' = r.redis
                  /\ marked_at' = Put(marked_at, item_hash, now)
                  /\ SchContinue(loop, Tail(sch_items[loop]), sch_errors[loop])
          /\ IF sent.delivered
             THEN /\ sch_sent' = [hash |-> item_hash, at |-> now,
                                  previous |-> Get(sch_dispatched, item_hash, -1),
                                  category |-> scored.category,
                                  topic |-> get_topic_for_category(sch_filters,
                                                                   scored.category),
                                  priority |-> get_priority_for_score(scored.score)]
                  /\ sch_dispatched' = Put(sch_dispatched, item_hash, now)
             ELSE UNCHANGED <<sch_dispatched, sch_sent>>
    /\ UNCHANGED <<now, redis_up, last>>
    /\ UNCHANGED <<sch_sources, sch_filters, sch_running, sch_tasks, sch_shutdown,
                   sch_closed>>

\* asyncio.sleep(interval) of the loop is over: the next collect() is requested
SchWake(loop) ==
    /\ sch_shutdown = "no" /\ sch_holder = "none" /\ sch_pc[loop] = "sleep"
    /\ sch_running
    /\ sch_pc' = [sch_pc EXCEPT ![loop] = "collect"]
    /\ UNCHANGED <<sch_sources, sch_filters, sch_running, sch_tasks, sch_items,
                   sch_holder, sch_dispatched, sch_sent, sch_errors, sch_shutdown,
                   sch_closed>>
    /\ UNCHANGED dedupVars

\* the suspension points of a loop
Suspended == {"collect", "send", "sleep"}
\* a task that has ended
Terminated == {"failed", "cancelled"}

\* shutdown() up to its gather: _running is cleared and every task is cancelled
SchShutdown ==
    /\ sch_running /\ sch_shutdown = "no" /\ sch_holder = "none"
    /\ sch_running' = FALSE
    /\ sch_shutdown' = "draining"
    /\ UNCHANGED <<sch_sources, sch_filters, sch_tasks, sch_pc, sch_items, sch_holder,
                   sch_dispatched, sch_sent, sch_errors, sch_closed>>
    /\ UNCHANGED dedupVars

\* mutant: the handlers around the send catch the cancellation, and the loop
\* stays where it is
on_cancel_swallowed(at) == IF at = "send" THEN "send" ELSE "cancelled"

\* where CancelledError thrown at a suspension point leaves the task: neither
\* the handlers of the collectors and of NtfyClient.send nor those of
\* _process_items and of the loop catch it
on_cancel(at) == "cancelled"

\* mutant: the gather returns as soon as one task has ended
gather_done_first(tasks, pc) == \E l \in tasks : pc[l] \in Terminated

\* asyncio.gather(*self._tasks, return_exceptions=True) returns once every
\* task has ended, cancelled or failed
gather_done(tasks, pc) == \A l \in tasks : pc[l] \in Terminated

\* the cancelled task is resumed at its suspension point with CancelledError,
\* which no handler of the loop catches: the task ends
SchCancelled(loop) ==
    /\ sch_shutdown = "draining" /\ sch_pc[loop] \in Suspended
    /\ sch_pc' = [sch_pc EXCEPT ![loop] = on_cancel(sch_pc[loop])]
    /\ IF sch_pc'[loop] \in Terminated
       THEN /\ sch_items' = [sch_items EXCEPT ![loop] = <<>>]
            /\ sch_errors' = [sch_errors EXCEPT ![loop] = 0]
       ELSE UNCHANGED <<sch_items, sch_errors>>
    /\ UNCHANGED <<sch_sources, sch_filters, sch_running, sch_tasks, sch_holder,
                   sch_dispatched, sch_sent, sch_shutdown, sch_closed>>
    /\ UNCHANGED dedupVars

\* the gather of shutdown() returns, every task having ended; the store
\* connection is closed if there is one
SchShutdownReturns ==
    /\ sch_shutdown = "draining"
    /\ gather_done(sch_tasks, sch_pc)
    /\ sch_shutdown' = "stopped"
    /\ sch_closed' = redis
    /\ UNCHANGED <<sch_sources, sch_filters, sch_running, sch_tasks, sch_pc, sch_items,
                   sch_holder, sch_dispatched, sch_sent, sch_errors>>
    /\ UNCHANGED dedupVars

\* the clock, while the loops are suspended, up to the second after a dedup
\* record written at the start has expired
SchTick ==
    /\ sch_holder = "none"
    /\ now <= WindowSeconds
    /\ Tick

NextScheduler ==
    \/ SchRun /\ UNCHANGED <<dedupVars, hashVars, scoreVars, rssVars, nitVars, ntfyVars>>
    \/ \E loop \in sch_tasks : \E items \in CollectedBatches(loop, now) :
         SchCollected(loop, items) /\ UNCHANGED <<hashVars, scoreVars, rssVars, nitVars, ntfyVars>>
    \/ \E loop \in sch_tasks :
         SchCollectRaises(loop) /\ UNCHANGED <<hashVars, scoreVars, rssVars, nitVars, ntfyVars>>
    \/ \E loop \in sch_tasks :
         SchProcessItem(loop) /\ UNCHANGED <<hashVars, scoreVars, rssVars, nitVars, ntfyVars>>
    \/ \E loop \in sch_tasks :
         SchItemRaises(loop) /\ UNCHANGED <<hashVars, scoreVars, rssVars, nitVars, ntfyVars>>
    \/ \E loop \in sch_tasks, outcome \in TransportOutcomes \cup {"raise"},
          mark_raises \in BOOLEAN :
         SchSendReturns(loop, outcome, mark_raises)
         /\ UNCHANGED <<hashVars, scoreVars, rssVars, nitVars, ntfyVars>>
    \/ \E loop \in sch_tasks :
         SchWake(loop) /\ UNCHANGED <<hashVars, scoreVars, rssVars, nitVars, ntfyVars>>
    \/ SchShutdown /\ UNCHANGED <<hashVars, scoreVars, rssVars, nitVars, ntfyVars>>
    \/ \E loop \in sch_tasks :
         SchCancelled(loop) /\ UNCHANGED <<hashVars, scoreVars, rssVars, nitVars, ntfyVars>>
    \/ SchShutdownReturns /\ UNCHANGED <<hashVars, scoreVars, rssVars, nitVars, ntfyVars>>
    \/ SchTick /\ UNCHANGED <<hashVars, scoreVars, rssVars, nitVars, schVars, ntfyVars>>

SpecScheduler == InitScheduler /\ [][NextScheduler]_vars

\* the event loop resumes every task whose cancellation is pending, and resumes
\* shutdown() once its gather is done
SchedulerFairness ==
    /\ \A loop \in Loops :
          WF_vars(SchCancelled(loop)
                  /\ UNCHANGED <<hashVars, scoreVars, rssVars, nitVars, ntfyVars>>)
    /\ WF_vars(SchShutdownReturns
               /\ UNCHANGED <<hashVars, scoreVars, rssVars, nitVars, ntfyVars>>)

SpecSchedulerFair == InitScheduler /\ [][NextScheduler]_vars /\ SchedulerFairness

\* the deployments with REDIS_URL set and a feed to poll, the store becoming
\* unreachable and reachable again while the loops run
InitSchedulerOutage ==
    /\ InitScheduler
    /\ redis
    /\ Get(sch_sources, "rss_feeds", <<>>) # <<>>

NextSchedulerOutage ==
    \/ NextScheduler
    \/ RedisFail /\ UNCHANGED <<hashVars, scoreVars, rssVars, nitVars, schVars, ntfyVars>>
    \/ RedisRecover /\ UNCHANGED <<hashVars, scoreVars, rssVars, nitVars, schVars, ntfyVars>>

SpecSchedulerOutage == InitSchedulerOutage /\ [][NextSchedulerOutage]_vars

----------------------------------------------------------------------------
\* _get_priority_for_score applied to one score

\* the scores passed: boosts and keyword weights are any integers
PriorityScores == (0 - MaxScore)..MaxScore

InitPriority ==
    /\ nt_score \in PriorityScores /\ nt_priority = 0
    /\ nt_text = <<>> /\ nt_max = 0 /\ nt_truncated = <<>>
    /\ InitSendIdle
    /\ now = 0 /\ redis = FALSE /\ redis_up = TRUE /\ redis_store = EmptyDict
    /\ memory_cache = EmptyDict /\ last = NoCall /\ marked_at = EmptyDict
    /\ InitHashIdle /\ InitScoreIdle /\ InitRssIdle /\ InitNitIdle /\ InitSchIdle

GetPriorityForScore ==
    /\ nt_priority = 0
    /\ nt_priority' = get_priority_for_score(nt_score)
    /\ UNCHANGED <<nt_score, nt_text, nt_max, nt_truncated, sendVars>>

NextPriority ==
    GetPriorityForScore
    /\ UNCHANGED <<dedupVars, hashVars, scoreVars, rssVars, nitVars, schVars>>

SpecPriority == InitPriority /\ [][NextPriority]_vars

----------------------------------------------------------------------------
\* NtfyClient._truncate applied to one text

\* text[:stop]: a negative stop counts from the end
SliceTo(text, stop) ==
    LET last_kept == IF stop >= 0 THEN Min(stop, Len(text))
                     ELSE IF Len(text) + stop > 0 THEN Len(text) + stop ELSE 0
    IN SubSeq(text, 1, last_kept)

\* NtfyClient._truncate
truncate(text, max_length) ==
    IF Len(text) <= max_length THEN text
    ELSE SliceTo(text, max_length - 3) \o <<46, 46, 46>>

\* the texts passed: "a" and "b" in every arrangement up to MaxText characters
TruncateTexts == UNION { [1..n -> {97, 98}] : n \in 0..MaxText }

\* _truncate has not returned yet
NotTruncated == <<0>>

InitTruncate ==
    /\ nt_text \in TruncateTexts /\ nt_max \in 0..MaxText
    /\ nt_truncated = NotTruncated
    /\ nt_score = 0 /\ nt_priority = 0
    /\ InitSendIdle
    /\ now = 0 /\ redis = FALSE /\ redis_up = TRUE /\ redis_store = EmptyDict
    /\ memory_cache = EmptyDict /\ last = NoCall /\ marked_at = EmptyDict
    /\ InitHashIdle /\ InitScoreIdle /\ InitRssIdle /\ InitNitIdle /\ InitSchIdle

Truncate ==
    /\ nt_truncated = NotTruncated
    /\ nt_truncated' = truncate(nt_text, nt_max)
    /\ UNCHANGED <<nt_score, nt_priority, nt_text, nt_max, sendVars>>

NextTruncate ==
    Truncate /\ UNCHANGED <<dedupVars, hashVars, scoreVars, rssVars, nitVars, schVars>>

SpecTruncate == InitTruncate /\ [][NextTruncate]_vars

----------------------------------------------------------------------------
\* NtfyClient.send applied to one title and one message

Ellipsis == 8230

\* the replacements of _encode_header, all of one character by one character
\* except the ellipsis
header_replacement(c) ==
    CASE c \in {8216, 8217} -> <<39>>
      [] c \in {8220, 8221} -> <<34>>
      [] c \in {8211, 8212} -> <<45>>
      [] c = Ellipsis -> <<46, 46, 46>>
      [] c = 160 -> <<32>>
      [] OTHER -> <<c>>

\* text.encode('ascii', 'replace').decode('ascii')
ascii_replace(c) == IF c > 127 THEN 63 ELSE c

\* _encode_header: newlines and control characters become spaces, the
\* replacements are applied, what is left outside ASCII becomes "?"
RECURSIVE encode_header(_)
encode_header(text) ==
    IF text = <<>> THEN <<>>
    ELSE LET c == IF text[1] < 32 THEN 32 ELSE text[1]
             r == header_replacement(c)
         IN [k \in 1..Len(r) |-> ascii_replace(r[k])] \o encode_header(Tail(text))

TwoDigits(n) == <<48 + (n \div 10), 48 + (n % 10)>>

\* f"[{timestamp}] " with timestamp = strftime("%H:%M UTC") of the time t, in
\* seconds
timestamp_prefix(t) ==
    <<91>> \o TwoDigits((t \div 3600) % 24) \o <<58>> \o TwoDigits((t \div 60) % 60)
           \o <<32, 85, 84, 67, 93, 32>>

\* the Title header and the body send posts
send_request(title, message, max_title_length, max_body_length, include_timestamp, t) ==
    LET cut == truncate(message, max_body_length)
    IN [title |-> encode_header(truncate(title, max_title_length)),
        body |-> IF include_timestamp THEN timestamp_prefix(t) \o cut ELSE cut,
        posted |-> TRUE]

\* the titles passed: "a" and the ellipsis in every arrangement up to MaxText
\* characters
SendTitles == UNION { [1..n -> {97, Ellipsis}] : n \in 0..MaxText }

\* the messages passed: "a" repeated up to MaxText times
SendMessages == { [k \in 1..n |-> 97] : n \in 0..MaxText }

\* the limits configured: _truncate needs at least the three characters of its
\* "..."
SendLimits == 3..MaxText

InitSend ==
    /\ nt_title \in SendTitles /\ nt_message \in SendMessages
    /\ nt_max_title \in SendLimits /\ nt_max_body \in SendLimits
    /\ nt_include_timestamp \in BOOLEAN
    /\ nt_request = NoRequest
    /\ nt_score = 0 /\ nt_priority = 0
    /\ nt_text = <<>> /\ nt_max = 0 /\ nt_truncated = <<>>
    /\ now = 0 /\ redis = FALSE /\ redis_up = TRUE /\ redis_store = EmptyDict
    /\ memory_cache = EmptyDict /\ last = NoCall /\ marked_at = EmptyDict
    /\ InitHashIdle /\ InitScoreIdle /\ InitRssIdle /\ InitNitIdle /\ InitSchIdle

\* send(topic, title, message): the request is built and posted
Send ==
    /\ ~nt_request.posted
    /\ nt_request' = send_request(nt_title, nt_message, nt_max_title, nt_max_body,
                                  nt_include_timestamp, now)
    /\ UNCHANGED <<nt_score, nt_priority, nt_text, nt_max, nt_truncated, nt_title,
                   nt_message, nt_max_title, nt_max_body, nt_include_timestamp>>

NextSend ==
    Send /\ UNCHANGED <<dedupVars, hashVars, scoreVars, rssVars, nitVars, schVars>>

SpecSend == InitSend /\ [][NextSend]_vars

----------------------------------------------------------------------------
\* Claims about the Scheduler (checked under SpecScheduler)

\* C1: at-most-once delivery under the TTL. With the feed loop and the social
\* loop both running against the shared Deduplicator, in every interleaving of
\* the loops at their suspension points, a notification for a hash is never
\* delivered while the dedup record of the previous notification for the same
\* hash (written when that one was sent) is younger than the dedup window.
C1_AtMostOnceUnderTTL ==
    sch_sent.previous # -1 => sch_sent.at - sch_sent.previous >= WindowSeconds

\* no keyword of the configured categories matches the item
NoKeywordMatch(item, keywords) ==
    \A n \in 1..Len(keywords) : ~CategoryMatched(item, keywords, n)

\* C12: threshold gate. A non-duplicate item is dispatched if and only if its
\* score is at least the configured minimum_score (a score equal to the
\* minimum dispatches); an item with no keyword match scores exactly its
\* priority_boost, so with boost 20 and minimum 55 it is not dispatched.
C12_ThresholdGate ==
    [][ \A loop \in Loops :
          (SchProcessItem(loop) /\ "minimum_score" \in DOMAIN sch_filters) =>
            LET item == Head(sch_items[loop])
                item_score == score(item, SchedulerKeywords).score
                sent == sch_pc'[loop] = "send" /\ sch_items'[loop] = sch_items[loop]
            IN /\ NoKeywordMatch(item, SchedulerKeywords) =>
                    item_score = Get(item, "priority_boost", 0)
               /\ ~is_duplicate(item).result =>
                    (sent <=> item_score >= sch_filters.minimum_score)
               /\ ( /\ NoKeywordMatch(item, SchedulerKeywords)
                    /\ Get(item, "priority_boost", 0) = 20
                    /\ sch_filters.minimum_score = 55 ) => ~sent ]_vars

\* an item whose score equals the configured minimum is being dispatched
C12_Witness ==
    \E loop \in Loops :
        /\ sch_pc[loop] = "send"
        /\ "minimum_score" \in DOMAIN sch_filters
        /\ score(Head(sch_items[loop]), SchedulerKeywords).score = sch_filters.minimum_score

\* the step is an exception raised while the loop's item is checked, scored,
\* dispatched or marked
SchItemFailed(loop) ==
    \/ SchItemRaises(loop)
    \/ \E outcome \in TransportOutcomes \cup {"raise"}, mark_raises \in BOOLEAN :
         /\ send(outcome).raised \/ mark_raises
         /\ SchSendReturns(loop, outcome, mark_raises)

\* C13: per-item failure isolation. An exception raised while one item is
\* checked, scored, dispatched or marked does not leave _process_items (the loop
\* task goes on) and the batch goes on with exactly the items after the failed
\* one: the next one is processed at once, or the loop sleeps when none is left.
C13_ItemFailureIsolated ==
    [][ \A loop \in Loops :
          SchItemFailed(loop) =>
            LET later == Tail(sch_items[loop])
            IN /\ sch_pc'[loop] \notin Terminated
               /\ sch_items'[loop] = later
               /\ sch_pc'[loop] = IF later # <<>> THEN "item" ELSE "sleep"
               /\ later # <<>> => sch_holder' = loop ]_vars

\* after an exception on an earlier item of its batch, the loop is dispatching a
\* later item of the same batch
C13_Witness ==
    \E loop \in Loops :
        /\ sch_errors[loop] > 0
        /\ sch_pc[loop] = "send"
        /\ sch_shutdown = "no"

\* C14: once run() has started a loop, the loop keeps performing passes until
\* shutdown is requested, whatever the source configuration and whatever a pass
\* raises: no loop task ends while no shutdown has been requested.
C14_LoopsEndOnlyOnShutdown ==
    \A loop \in sch_tasks : sch_pc[loop] \in Terminated => sch_shutdown # "no"

\* C15: shutdown() cancels every started loop, waits until all of them have
\* ended (a cancelled loop counts as ended, not as an error) and only then
\* closes the Deduplicator's store connection; from the call of shutdown() on a
\* loop does nothing but end, and after shutdown() has returned no loop collects,
\* dispatches or marks anything.
C15_OrderlyShutdown ==
    [][ /\ sch_shutdown' = "stopped" =>
              \A loop \in sch_tasks' : sch_pc'[loop] \in Terminated
        /\ (sch_closed' /\ ~sch_closed) =>
              /\ \A loop \in sch_tasks : sch_pc[loop] \in Terminated
              /\ sch_shutdown = "draining" /\ sch_shutdown' = "stopped"
        /\ (sch_shutdown = "draining" /\ sch_shutdown' = "stopped") =>
              sch_closed' = redis
        /\ sch_shutdown # "no" =>
              /\ \A loop \in Loops :
                    sch_pc'[loop] # sch_pc[loop] =>
                        sch_pc[loop] \in Suspended /\ sch_pc'[loop] = "cancelled"
              /\ UNCHANGED <<sch_dispatched, sch_sent, marked_at, memory_cache,
                             sch_tasks>>
        /\ sch_shutdown = "stopped" =>
              UNCHANGED <<sch_pc, sch_items, sch_shutdown, sch_closed>> ]_vars

\* shutdown() has returned after cancelling a loop that had dispatched, and the
\* store connection is closed
C15_Witness ==
    /\ sch_shutdown = "stopped"
    /\ sch_closed
    /\ \E loop \in sch_tasks : sch_pc[loop] = "cancelled"
    /\ sch_dispatched # EmptyDict

\* C16: shutdown terminates. After shutdown() is called every running loop
\* gets the cancellation at the suspension point where it stands (a collect, a
\* send or a sleep) and no handler swallows it, so the orchestrator eventually
\* reaches the stopped state.
C16_ShutdownTerminates ==
    (sch_shutdown = "draining") ~> (sch_shutdown = "stopped")

\* shutdown() has returned with both loops cancelled
C16_Witness ==
    /\ sch_shutdown = "stopped"
    /\ \A loop \in Loops : sch_pc[loop] = "cancelled"

\* the step is a send of the loop's item that failed in the transport, after
\* which mark_seen ran
SchDispatchFailed(loop) ==
    \E outcome \in TransportOutcomes \ {"200"} : SchSendReturns(loop, outcome, FALSE)

\* C17: dispatch-failure policy. When the dispatch of an item fails in the
\* transport, mark_seen is still executed for it, so that a later pass does not
\* dispatch the item again within the dedup window: a send is requested for a
\* hash that was marked and never delivered only once the window has elapsed
\* since the mark.
C17_FailedDispatchNotRepeated ==
    [][ \A loop \in Loops :
          /\ SchDispatchFailed(loop) =>
                LET item_hash == generate_hash(Head(sch_items[loop]))
                IN item_hash \in DOMAIN marked_at' /\ marked_at'[item_hash] = now
          /\ (SchProcessItem(loop) /\ sch_pc'[loop] = "send") =>
                LET item_hash == generate_hash(Head(sch_items[loop]))
                IN (item_hash \in DOMAIN marked_at /\ item_hash \notin DOMAIN sch_dispatched)
                     => now - marked_at[item_hash] >= WindowSeconds ]_vars

\* C18: send() returns normally to its caller for every transport outcome
\* (timeout, connection error, any status): whatever the transport did,
\* _process_items goes on with the statement after the send (the item is marked
\* seen and no item error is handled), and the notification counts as delivered
\* only on status 200.
C18_SendNeverRaisesTransport ==
    [][ \A loop \in Loops : \A outcome \in TransportOutcomes :
          (sch_pc[loop] = "send" /\ sch_pc'[loop] # "send"
             /\ SchSendReturns(loop, outcome, FALSE)) =>
            LET item_hash == generate_hash(Head(sch_items[loop]))
            IN /\ ~send(outcome).raised
               /\ item_hash \in DOMAIN marked_at' /\ marked_at'[item_hash] = now
               /\ sch_errors'[loop] \in {0, sch_errors[loop]}
               /\ sch_dispatched' # sch_dispatched => outcome = "200" ]_vars

\* a send that failed in the transport has returned: the item is marked seen
\* and was never delivered
C18_Witness ==
    \E item_hash \in DOMAIN marked_at :
        /\ item_hash \notin DOMAIN sch_dispatched
        /\ \A loop \in Loops : sch_pc[loop] # "send"

----------------------------------------------------------------------------
\* Claims about the collectors' passes (checked under SpecCollect)

\* C19: collect() of either collector fails soft. A feed or a handle whose
\* fetch or parse fails does not end the pass (collect() does not raise), it
\* contributes no item, the items already gathered from the other feeds or
\* handles of the pass stay in the result, and the pass ends only after every
\* feed and every handle has been fetched.
C19_FailSoft ==
    [][ /\ \A f \in DOMAIN rss_feeds :
             (rss_pc = "gather" /\ f \in rss_pending /\ RssFetchFails(f)) =>
                /\ rss_pc' = "gather"
                /\ rss_results'[f] = <<>>
                /\ \A g \in DOMAIN rss_feeds \ {f} : rss_results'[g] = rss_results[g]
        /\ (rss_pc = "gather" /\ rss_pc' = "idle") =>
                rss_pending = {} /\ rss_results' = rss_results
        /\ (nit_pc = "fetch" /\ \E kind \in {"429", "status", "timeout", "error"} :
                                    NitAttemptFails(kind)) =>
                /\ nit_pc' \in {"fetch", "sleep"}
                /\ nit_account' = nit_account
                /\ nit_results' = nit_results
                /\ nit_results[nit_account] = <<>>
        /\ (nit_pc # "idle" /\ nit_pc' = "idle") =>
                nit_account = Len(nit_accounts) /\ nit_results' = nit_results ]_vars

\* a pass of the RSSCollector has returned the items of "F2" although the
\* fetch of "F1" failed in it
C19_Witness ==
    /\ rss_feeds = CollectFeeds
    /\ rss_pc = "idle"
    /\ rss_prev[1] = NotFetched
    /\ rss_results[1] = <<>>
    /\ rss_results[2] # <<>>

\* C20: failover scenario (checked under SpecFailover). With three endpoints of
\* which endpoint 1 answers rate-limited and endpoint 2 a non-success status,
\* the fetch of a handle ends with the page served by endpoint 3, endpoints 1
\* and 2 are then both marked failed, and the following handles of the pass
\* are asked of endpoint 3 only.
C20_FailoverExcludesBoth ==
    /\ nit_pc = "sleep" =>
          /\ nit_instance = "i3"
          /\ {"i1", "i2"} \subseteq nit_failed
    /\ (nit_pc = "fetch" /\ nit_account > 1) => nit_instance = "i3"

----------------------------------------------------------------------------
\* Claims about the dispatch of an item (checked under SpecScheduler)

\* C21: the channel an item is dispatched to is determined by its notification
\* category: security goes to the critical channel, regulatory and news to the
\* regulatory channel, protocol to the protocol channel, social and market to
\* the social channel, the channels being those the NtfyClient is configured
\* with.
C21_ChannelByCategory ==
    sch_sent # NoDelivery =>
        sch_sent.topic = get_topic_name(NtfyTopics, sch_sent.category)

\* C22 (checked under SpecPriority): _get_priority_for_score gives 5 to a
\* score of 90 or more, 4 from 70, 3 from 50 and 2 to every lower score; the
\* urgency lies in 1..5 and no lower score gets a higher urgency.
C22_UrgencyLevels ==
    nt_priority # 0 =>
        /\ nt_priority = (CASE nt_score >= 90 -> 5
                            [] nt_score >= 70 /\ nt_score < 90 -> 4
                            [] nt_score >= 50 /\ nt_score < 70 -> 3
                            [] nt_score < 50 -> 2)
        /\ nt_priority \in 1..5
        /\ \A lower \in PriorityScores :
              lower <= nt_score => get_priority_for_score(lower) <= nt_priority

\* a score of exactly 70 was given the urgency high
C22_Witness ==
    nt_score = 70 /\ nt_priority = 4

\* C23 (checked under SpecTruncate): for every maximum and every text longer
\* than it, _truncate returns the first max-3 characters followed by "...", of
\* total length exactly max; a text no longer than max is returned unchanged.
C23_TruncateExact ==
    nt_truncated # NotTruncated =>
        IF Len(nt_text) > nt_max
        THEN /\ nt_truncated = SubSeq(nt_text, 1, nt_max - 3) \o <<46, 46, 46>>
             /\ Len(nt_truncated) = nt_max
        ELSE nt_truncated = nt_text

\* C24: when the social source kind is disabled by configuration, run() never
\* starts its loop and the Social Collector's collect() is never requested,
\* while the feed loop is started.
C24_DisabledKindNeverRuns ==
    ~Get(Get(sch_sources, "nitter", EmptyDict), "enabled", TRUE) =>
        /\ "nitter" \notin sch_tasks
        /\ sch_pc["nitter"] = "none"
        /\ sch_items["nitter"] = <<>>
        /\ (sch_running \/ sch_shutdown # "no") => "rss" \in sch_tasks

\* with the social kind disabled, the feed loop is dispatching an item
C24_Witness ==
    /\ ~Get(Get(sch_sources, "nitter", EmptyDict), "enabled", TRUE)
    /\ sch_running
    /\ sch_tasks = {"rss"}
    /\ sch_pc["rss"] = "send"

----------------------------------------------------------------------------
\* Claims about the NitterCollector's checkpoints and failover (checked under
\* SpecNit)

\* C25: a pass never returns an item whose id is at or below the checkpoint
\* the handle had when the pass fetched its page, whatever the order of the
\* page and whether or not the checkpoint item is still on it.
C25_NothingAtOrBelowCheckpoint ==
    [][ (nit_pc = "fetch" /\ nit_pc' = "sleep") =>
          LET handle == nit_accounts[nit_account].handle
              returned == nit_results'[nit_account]
          IN handle \in DOMAIN nit_last_seen =>
               \A i \in 1..Len(returned) :
                  IdValue(returned[i].tweet_id) > IdValue(nit_last_seen[handle]) ]_vars

\* the request in flight fails, whatever the failure
NitAttemptFailed ==
    \E kind \in {"429", "status", "timeout", "error"} : NitAttemptFails(kind)

\* C26: failover coverage. _fetch_account gives up on a handle with an empty
\* result only after each configured endpoint was asked at least once for that
\* handle, whatever the failed set left by earlier handles.
C26_GivesUpAfterAllTried ==
    [][ (nit_pc = "fetch" /\ nit_attempt = Len(nit_instances) /\ NitAttemptFailed) =>
          nit_tried = {nit_instances[k] : k \in 1..Len(nit_instances)} ]_vars


\* a step on which _fetch_account takes its next instance
NitTakesInstance ==
    nit_pc' = "fetch" /\ (nit_pc # "fetch" \/ nit_attempt' = nit_attempt + 1)

\* the failed set as _get_next_instance finds it on that step: after a failed
\* attempt the instance just asked has been added
NitFailedSeen ==
    IF nit_pc = "fetch" THEN nit_failed \cup {nit_instance} ELSE nit_failed

NitConfigured == {nit_instances[k] : k \in 1..Len(nit_instances)}

\* C27: _get_next_instance never returns an endpoint of the failed set while
\* some configured endpoint is outside it; when the failed set covers every
\* configured endpoint it is cleared and the choice is over the full list.
C27_SkipsFailedUntilAllFailed ==
    [][ NitTakesInstance =>
          /\ nit_instance' \in NitConfigured
          /\ IF NitConfigured \subseteq NitFailedSeen
             THEN nit_failed' = {}
             ELSE nit_instance' \notin NitFailedSeen /\ nit_failed' = NitFailedSeen ]_vars

\* an instance was taken right after the failed set was cleared
C27_Witness ==
    nit_pc = "fetch" /\ nit_attempt > 1 /\ nit_failed = {}


\* C28: an endpoint marked failed during one pass is marked failed for that
\* pass only: when collect() starts the next pass no endpoint is in the failed
\* set.
C28_FailedSetEmptyAtPassStart ==
    [][ (nit_pc = "idle" /\ nit_pc' = "fetch") => nit_failed = {} ]_vars


\* C29: bounded failover. For each handle of a pass _fetch_account makes at
\* most len(instances) attempts, whatever the instances answer and whatever the
\* failed set held before, and when the last of them fails it returns: the
\* failed fetch is not retried within the pass.
C29_BoundedFailover ==
    [][ /\ nit_attempt' <= Len(nit_instances')
        /\ (nit_attempt = Len(nit_instances) /\ NitAttemptFailed) =>
              /\ nit_pc' = "sleep"
              /\ nit_attempt' = nit_attempt
              /\ nit_results'[nit_account] = <<>> ]_vars

\* a handle was given up after exactly len(instances) failed attempts
C29_Witness ==
    /\ nit_pc = "sleep" /\ nit_attempt = Len(nit_instances)
    /\ nit_instance \in nit_failed /\ nit_results[nit_account] = <<>>


\* C30: after a pass over a handle's page the handle's checkpoint is the
\* maximum, in the numeric order of the ids, of the ids examined and the
\* previous checkpoint: no id the pass returned is numerically above it, and
\* the previous checkpoint is not above it either.
C30_CheckpointIsNumericMax ==
    [][ (nit_pc = "fetch" /\ nit_pc' = "sleep" /\ nit_results'[nit_account] # <<>>) =>
          LET handle == nit_accounts[nit_account].handle
              returned == nit_results'[nit_account]
              previous == Get(nit_last_seen, handle, <<>>)
          IN /\ handle \in DOMAIN nit_last_seen'
             /\ IdValue(nit_last_seen'[handle]) >= IdValue(previous)
             /\ \A i \in 1..Len(returned) :
                  IdValue(nit_last_seen'[handle]) >= IdValue(returned[i].tweet_id) ]_vars


----------------------------------------------------------------------------
\* Claims about the checkpoints of the RSSCollector (checked under SpecRss)

\* _fetch_feed of feed f returns on this step, having parsed its document
RssFeedParsed(f) ==
    rss_pc = "gather" /\ f \in rss_pending /\ f \notin rss_pending' /\ rss_prev'[f].ok

\* C31: after a successful pass over a feed the feed's checkpoint is the
\* maximum timestamp among the items the pass returned for the feed, and is
\* unchanged when the pass returned none; an entry dropped by the
\* required-keyword filter does not move it.
C31_CheckpointFromReturnedItems ==
    [][ \A f \in DOMAIN rss_feeds :
          RssFeedParsed(f) =>
            LET url == rss_feeds[f].url
                before == Get(rss_last_seen, url, DatetimeMin)
                after == Get(rss_last_seen', url, DatetimeMin)
                entries == rss_prev'[f].entries
            IN /\ rss_results'[f] = <<>> => after = before
               /\ after \in {before} \cup
                    { parse_timestamp(entries[i]) :
                        i \in {j \in 1..Len(entries) :
                                 rss_keywords_ok(rss_feeds[f], entries[j])} } ]_vars


\* the item is the one _fetch_feed builds from the entry: the entries of a
\* document differ in their title or link
RssItemOf(item, entry) ==
    item.title = Get(entry, "title", <<>>) /\ item.link = Get(entry, "link", <<>>)

\* C32: a pass over a feed never returns an entry whose parsed timestamp is at
\* or before the checkpoint stored before the pass; an entry with no parseable
\* timestamp is not excluded by the checkpoint comparison: when it passes the
\* feed's keyword filter it is returned, on every pass, with the timestamp
\* "now", and a document of such entries leaves the checkpoint as it was.
C32_CheckpointExcludesOnlyDated ==
    [][ \A f \in DOMAIN rss_feeds :
          RssFeedParsed(f) =>
            LET url == rss_feeds[f].url
                before == Get(rss_last_seen, url, DatetimeMin)
                after == Get(rss_last_seen', url, DatetimeMin)
                entries == rss_prev'[f].entries
                returned == rss_results'[f]
            IN /\ \A j \in 1..Len(entries) :
                    LET timestamp == parse_timestamp(entries[j])
                    IN IF timestamp # NoTimestamp
                       THEN timestamp <= before =>
                              \A i \in 1..Len(returned) : ~RssItemOf(returned[i], entries[j])
                       ELSE rss_keywords_ok(rss_feeds[f], entries[j]) =>
                              \E i \in 1..Len(returned) :
                                 /\ RssItemOf(returned[i], entries[j])
                                 /\ returned[i].timestamp = now
               /\ (\A j \in 1..Len(entries) : parse_timestamp(entries[j]) = NoTimestamp)
                     => after = before ]_vars

\* a second pass over the same document excluded its dated entry and returned
\* its undated one again
C32_Witness ==
    \E f \in DOMAIN rss_feeds :
        /\ rss_prev[f].no_new
        /\ \E j \in 1..Len(rss_prev[f].entries) :
              parse_timestamp(rss_prev[f].entries[j]) # NoTimestamp
        /\ \E j \in 1..Len(rss_prev[f].entries) :
              /\ parse_timestamp(rss_prev[f].entries[j]) = NoTimestamp
              /\ \E i \in 1..Len(rss_results[f]) :
                    RssItemOf(rss_results[f][i], rss_prev[f].entries[j])
        /\ \A i \in 1..Len(rss_results[f]) :
              \E j \in 1..Len(rss_prev[f].entries) :
                 /\ parse_timestamp(rss_prev[f].entries[j]) = NoTimestamp
                 /\ RssItemOf(rss_results[f][i], rss_prev[f].entries[j])


\* C33: within one pass of the RSSCollector no feed's checkpoint is updated
\* before the concurrent fetches of all the feeds of the pass are joined: a
\* checkpoint changes only once no fetch of the pass is still pending.
C33_CheckpointsCommittedAfterJoin ==
    [][ \A f \in DOMAIN rss_feeds :
          Get(rss_last_seen', rss_feeds[f].url, DatetimeMin)
             # Get(rss_last_seen, rss_feeds[f].url, DatetimeMin)
          => rss_pending' = {} ]_vars


\* _fetch_feed of feed f returns on this step without a parsed document
RssFeedFailed(f) ==
    rss_pc = "gather" /\ f \in rss_pending /\ f \notin rss_pending' /\ ~rss_prev'[f].ok

\* C34: when the fetch of a feed or of a handle fails (an error of the
\* request, a timeout, a status other than 200, every instance failed), the
\* checkpoint of that source is left as it was and so are the checkpoints of
\* the other sources.
C34_FailedFetchKeepsCheckpoints ==
    [][ ((\E f \in DOMAIN rss_feeds : RssFeedFailed(f))
           \/ (nit_pc = "fetch" /\ NitAttemptFailed))
        => (rss_last_seen' = rss_last_seen /\ nit_last_seen' = nit_last_seen) ]_vars

\* the fetch of a feed failed in a pass after one that gave the feed a checkpoint
C34_Witness ==
    \E f \in DOMAIN rss_feeds :
        /\ rss_pc = "gather" /\ f \notin rss_pending /\ ~rss_prev[f].ok
        /\ rss_feeds[f].url \in DOMAIN rss_last_seen
        /\ rss_last_seen[rss_feeds[f].url] > DatetimeMin


----------------------------------------------------------------------------
\* Claims about the order of _process_items (checked under SpecScheduler)

\* the hashes of the items the collectors of the scheduler can return
SchHashes ==
    {generate_hash(item) : item \in CollectedItems("rss", 0) \cup CollectedItems("nitter", 0)}

\* the answer is_duplicate would give for the hash at time t
SchReportedSeen(item_hash, cache, store, t) ==
    IF redis THEN redis_exists(store, item_hash, t)
    ELSE check_memory(cache, item_hash, t).result

\* C35: mark_seen(item) runs only for an item that was reported non-duplicate
\* and scored at least the minimum, after its dispatch call returned in the
\* same iteration; an item skipped as duplicate or as below the minimum causes
\* no dispatch and leaves the set of hashes reported as seen as it was.
C35_MarkOnlyAfterDispatch ==
    [][ /\ \A loop \in Loops :
             /\ (sch_pc[loop] = "item" /\ sch_pc'[loop] = "send") =>
                   LET item == Head(sch_items[loop])
                   IN /\ ~is_duplicate(item).result
                      /\ score(item, SchedulerKeywords).score
                            >= Get(sch_filters, "minimum_score", MinimumScoreDefault)
                      /\ marked_at' = marked_at
                      /\ sch_dispatched' = sch_dispatched
             /\ (sch_pc[loop] = "item" /\ sch_pc'[loop] # "send") =>
                   /\ sch_dispatched' = sch_dispatched /\ sch_sent' = sch_sent
                   /\ marked_at' = marked_at
                   /\ \A h \in SchHashes :
                         SchReportedSeen(h, memory_cache', redis_store', now')
                            = SchReportedSeen(h, memory_cache, redis_store, now)
        /\ marked_at' # marked_at =>
              \E loop \in Loops :
                 /\ sch_pc[loop] = "send" /\ sch_pc'[loop] # "send"
                 /\ sch_errors'[loop] \in {sch_errors[loop], 0}
                 /\ marked_at' = Put(marked_at, generate_hash(Head(sch_items[loop])), now)
                 /\ SchReportedSeen(generate_hash(Head(sch_items[loop])),
                                    memory_cache', redis_store', now') ]_vars

\* an item was dispatched and marked, and a loop is about to skip a duplicate
C35_Witness ==
    \E loop \in Loops :
        /\ sch_sent.hash \in DOMAIN marked_at
        /\ marked_at[sch_sent.hash] = sch_sent.at
        /\ sch_pc[loop] = "item"
        /\ is_duplicate(Head(sch_items[loop])).result


\* C36: in a pass during which no exception occurs and shutdown is not
\* requested, every item collect() returned that is not a duplicate and scores
\* at least the minimum is dispatched and then marked seen before the loop
\* enters its sleep: the loop sleeps only once its batch is used up, the batch
\* is used up one item at a time from its head, and an item leaves it either
\* at the check, being a duplicate or below the minimum, or when its dispatch
\* has returned and mark_seen has recorded it.
C36_EligibleItemsDispatchedAndMarked ==
    [][ \A loop \in Loops :
          /\ sch_pc'[loop] = "sleep" => sch_items'[loop] = <<>>
          /\ (/\ sch_items[loop] # <<>> /\ sch_items'[loop] # sch_items[loop]
              /\ sch_shutdown = "no" /\ sch_shutdown' = "no"
              /\ ~SchItemFailed(loop)) =>
                LET item == Head(sch_items[loop])
                    min_score == Get(sch_filters, "minimum_score", MinimumScoreDefault)
                IN /\ sch_items'[loop] = Tail(sch_items[loop])
                   /\ IF sch_pc[loop] = "item"
                      THEN \/ is_duplicate(item).result
                           \/ score(item, SchedulerKeywords).score < min_score
                      ELSE /\ sch_pc[loop] = "send"
                           /\ generate_hash(item) \in DOMAIN marked_at'
                           /\ marked_at'[generate_hash(item)] = now
                           /\ SchReportedSeen(generate_hash(item), memory_cache',
                                              redis_store', now') ]_vars

\* a loop went to sleep on the step that marked the item it had just dispatched
C36_Witness ==
    \E loop \in Loops :
        /\ sch_pc[loop] = "sleep" /\ sch_shutdown = "no"
        /\ sch_sent.at = now
        /\ sch_sent.hash \in DOMAIN marked_at
        /\ marked_at[sch_sent.hash] = now
        /\ SchReportedSeen(sch_sent.hash, memory_cache, redis_store, now)


----------------------------------------------------------------------------
\* Claims about the request NtfyClient.send posts (checked under SpecSend)

\* C37: for every title and message passed to send, the Title header posted
\* has at most max_title_length characters and the body posted has at most
\* max_body_length characters, after the header sanitisation and the optional
\* timestamp prefix.
C37_PostedWithinLimits ==
    nt_request.posted =>
        /\ Len(nt_request.title) <= nt_max_title
        /\ Len(nt_request.body) <= nt_max_body

=============================================================================
